---- MODULE Spec2Model ----
(***************************************************************************)
(* Model of the master-mode command/interrupt engine of the NS9xxx I2C     *)
(* bus driver, drivers/i2c/busses/i2c-ns9xxx.c.                            *)
(*                                                                         *)
(* One caller thread runs ns9xxx_i2c_xfer on a message sequence chosen in  *)
(* Init.  The interrupt handler ns9xxx_i2c_irq preempts the thread: the    *)
(* NS9xxx is a uniprocessor, so while the handler runs the thread does not *)
(* step, and the handler cannot start while the thread holds the spinlock  *)
(* (spin_lock_irqsave masks interrupts) or while disable_irq is in force.  *)
(* The controller is the environment: a written command stays in progress  *)
(* (master-command-lock set) until it completes with an interrupt whose    *)
(* cause code the hardware chooses, or it hangs (wedged).                  *)
(***************************************************************************)
EXTENDS Integers, Sequences, FiniteSets, TLC

(***************************************************************************)
(* Bounds of the model.                                                    *)
(***************************************************************************)
MaxMsgs == 2        \* messages in one transfer
MaxLen == 2         \* bytes in the message of a one-message transfer
MaxLenMulti == 1    \* bytes in a message of a longer transfer
PollWindow == 1     \* polls of the lock bit that fit in one polling window
MaxWedgeCmd == 1    \* the controller may hang on one of the first MaxWedgeCmd commands
MaxFaultCmd == 1    \* a signal may arrive, and a command that still completes may time out,
                    \* during one of the first MaxFaultCmd commands
MaxIrqCode == 15    \* interrupt-cause codes the controller reports are 0..MaxIrqCode

(***************************************************************************)
(* Register bit fields (lines 36-76 of the source).                        *)
(***************************************************************************)
I2C_CMD_TXVAL == 2 * 4096
I2C_MASTERADDR_7BIT == 0
I2C_MASTERADDR_10BIT == 1
I2C_MASTERADDR_ADDRMASK == 2048 - 1
I2C_CMD_NOP == 0
I2C_CMD_READ == 4 * 256
I2C_CMD_WRITE == 5 * 256
I2C_CMD_STOP == 6 * 256
I2C_IRQ_ARBITLOST == 1 * 256
I2C_IRQ_NOACK == 2 * 256
I2C_IRQ_TXDATA == 3 * 256
I2C_IRQ_RXDATA == 4 * 256
I2C_IRQ_CMDACK == 5 * 256
I2C_STATUS_MCMDL == 4096
I2C_CONFIG_IRQD == 8 * 4096
I2C_CONFIG_TMDE == 4 * 4096
I2C_CONFIG_VSCD == 2 * 4096
I2C_CONFIG_CLREFMASK == 512 - 1
I2C_NORMALSPEED == 100000
I2C_HIGHSPEED == 400000
BUSY_RELEASE_ATTEMPTS == 10
RetryBudget == 10
ETIMEDOUT == 110
EIO == 5
ENODEV == 19
EINVAL == 22

\* status & I2C_STATUS_IRQCD_MASK
IrqCause(status) == ((status \div 256) % 16) * 256
\* status & I2C_STATUS_RXDATA_MASK
RxData(status) == status % 256
\* status & I2C_STATUS_MCMDL
Locked(status) == (status \div I2C_STATUS_MCMDL) % 2 = 1

\* the value the status register returns: lock bit, cause code (a field of
\* four bits), data byte
StatusWord(lockbit, code, data) ==
    (IF lockbit THEN I2C_STATUS_MCMDL ELSE 0) + (code % 16) * 256 + data

(***************************************************************************)
(* Message descriptors (struct i2c_msg): len, I2C_M_RD, I2C_M_NOSTART,     *)
(* I2C_M_TEN and the slave address.  Flags a message does not read are     *)
(* fixed to FALSE so that equal transfers are not enumerated twice.        *)
(***************************************************************************)
SlaveAddr == 80

Msgs ==
    {m \in [len : 0..MaxLen, rd : BOOLEAN, nostart : BOOLEAN, ten : BOOLEAN,
            addr : {SlaveAddr}] :
        /\ (m.len = 0 => ~m.rd /\ ~m.nostart)
        /\ (m.nostart => ~m.ten)}

\* the messages of a transfer of more than one message: short, 7-bit addressed
MultiMsgs == {m \in Msgs : m.len <= MaxLenMulti /\ ~m.ten}

Transfers ==
    [1..1 -> Msgs] \cup UNION {[1..n -> MultiMsgs] : n \in 2..MaxMsgs}

\* what the caller put in the buffer of message m (1-based) at offset k:
\* the bytes to send of a write message, zero in a read buffer
InitByte(ms, m, k) == IF ms[m].rd THEN 0 ELSE 16 * m + k + 1

\* the byte the slave delivers in a receive-data-ready status
SlaveByte == 165

\* the bytes the slave may deliver
RxBytes == {SlaveByte, SlaveByte + 1}

NULL == [m |-> -1, off |-> 0]

\* the platform: configured bus speed (0: none), controller clock, SCL_DELAY
Speeds == {0}
ClkRates == {74908800}
SclDelays == {0}

VARIABLES
    msgs, mem,          \* the caller's message array and its buffers
    state, buf, lock,   \* dev_data->state, dev_data->buf, dev_data->lock
    irqoff,             \* depth of disable_irq on the controller interrupt
    config,             \* the configuration register, as last written
    io,                 \* the register write the last step performed
    hwActive, wedged,   \* a command is in progress; the controller hangs
    ncmd,               \* commands the thread wrote, counted up to CmdCountCap
    gpio,               \* who drives the bus lines: "hw" or "gpio"
    sigpending,         \* a signal is pending for the calling thread
    oob,                \* a store through the cursor fell outside its buffer
    pc, stack, retval,  \* the thread's position, return labels, last result
    i, ret, retry, len, lbuf, result,   \* locals of ns9xxx_i2c_xfer
    firsterr,           \* the first negative result that ended a message's processing
    cmdlog,             \* the commands the thread wrote, each with the cause and data
                        \* of its completion, kept while every command completed Ok
    cmd,                \* the argument of ns9xxx_i2c_send_cmd
    expired,            \* adap.timeout has passed since the last command was written
    count, rwret,       \* locals of ns9xxx_i2c_read / ns9xxx_i2c_write
    attempt, elapsed,   \* locals of ns9xxx_wait_while_busy
    sda,                \* the acknowledge level ns9xxx_i2c_bitbang sampled
    irqpc, irqstatus,   \* the handler's position and its local status
    speed, clkrate, scl_delay   \* pdata->speed, clk_get_rate(clk), scl_delay

hwvars == <<hwActive, wedged, ncmd, gpio, sigpending, oob>>
devvars == <<state, buf, lock, irqoff, config>>
xfervars == <<i, ret, retry, len, lbuf, result, firsterr>>
subvars == <<cmd, expired, count, rwret, attempt, elapsed, sda>>
irqvars == <<irqpc, irqstatus>>
platvars == <<speed, clkrate, scl_delay>>
vars == <<msgs, mem, devvars, io, hwvars, pc, stack, retval, xfervars, subvars,
          irqvars, platvars, cmdlog>>

\* the command count is kept only as far as the two bounds above look at it
CmdCountCap == (IF MaxWedgeCmd > MaxFaultCmd THEN MaxWedgeCmd ELSE MaxFaultCmd) + 1

NoIo == [reg |-> "none", val |-> 0, by |-> "none"]
Wr(reg, val, by) == [reg |-> reg, val |-> val, by |-> by]

num == Len(msgs)

\* cmdlog once a command failed, timed out or was interrupted by a signal
Dirty == <<[cmd |-> -1, cause |-> -1, data |-> 0]>>

\* cmdlog after the thread wrote command word c
Issued(c) ==
    IF cmdlog = Dirty THEN Dirty
    ELSE Append(cmdlog, [cmd |-> c, cause |-> -1, data |-> 0])

\* cmdlog after the handler classified the completion of the last command,
\* with cause code and data byte: the causes of lines 160-166 give state Ok
Completed(code, data) ==
    IF cmdlog = Dirty \/ cmdlog = <<>> THEN Dirty
    ELSE IF code * 256 \notin {I2C_IRQ_RXDATA, I2C_IRQ_CMDACK, I2C_IRQ_TXDATA} THEN Dirty
    ELSE [cmdlog EXCEPT ![Len(cmdlog)] = [cmd |-> @.cmd, cause |-> code * 256, data |-> data]]

(***************************************************************************)
(* Helpers shared by the thread and the handler.                           *)
(***************************************************************************)
\* the cursor p points into the buffer of one of the messages
InBuffer(p) == p.m >= 0 /\ p.m < num /\ p.off >= 0 /\ p.off < msgs[p.m + 1].len

\* *p = v
Store(p, v) == [mem EXCEPT ![p.m + 1][p.off + 1] = v]

\* *p
Load(p) == mem[p.m + 1][p.off + 1]

\* p + 1
Advance(p) == [p EXCEPT !.off = p.off + 1]

\* the thread runs only while no handler invocation is in progress
ThreadRuns == irqpc = "idle"

\* readl(ioaddr + I2C_STATUS) by the thread: the lock bit is set while a
\* command is in progress
ThreadStatus == StatusWord(hwActive, 0, 0)

\* v & ~bit, for a single bit
ClearBit(v, bit) == IF (v \div bit) % 2 = 1 THEN v - bit ELSE v
\* v | bit, for a single bit
SetBit(v, bit) == IF (v \div bit) % 2 = 1 THEN v ELSE v + bit
\* x / d in unsigned 32-bit arithmetic, where a negative x stands for the
\* word x + 2^32 (2^32 itself is written as MaxInt + MaxInt + 2)
U32Div(x, d) ==
    LET MaxInt == 2147483647
    IN  IF x >= 0 THEN x \div d
        ELSE 2 * (MaxInt \div d) + ((2 * (MaxInt % d) + x + 2) \div d)

(***************************************************************************)
(* ns9xxx_i2c_set_clock (lines 601-642): the configuration word written    *)
(* for clock rate, frequency freq and scl_delay, or cfg unchanged when the *)
(* frequency is rejected with -EINVAL.  The arithmetic is unsigned 32-bit: *)
(* a negative ClockRef stands for the word ClockRef + 2^32.                *)
(***************************************************************************)
ClockRef(rate, freq, delay) == (rate \div (4 * freq)) - 4 - delay

\* ns9xxx_i2c_set_clock with the standard-mode divisor used in fast mode too
\* (a variant C15_ClockFieldNineBits rules out)
ns9xxx_i2c_set_clock_halved(cfg, rate, freq, delay) ==
    LET cleared == cfg - (cfg % (I2C_CONFIG_CLREFMASK + 1))
    IN  IF freq = I2C_NORMALSPEED
        THEN ClearBit(ClearBit(cleared, I2C_CONFIG_TMDE), I2C_CONFIG_VSCD)
             + (U32Div(ClockRef(rate, freq, delay), 2) % (I2C_CONFIG_CLREFMASK + 1))
        ELSE IF freq = I2C_HIGHSPEED
        THEN ClearBit(SetBit(cleared, I2C_CONFIG_TMDE), I2C_CONFIG_VSCD)
             + (U32Div(ClockRef(rate, freq, delay), 2) % (I2C_CONFIG_CLREFMASK + 1))
        ELSE cfg

ns9xxx_i2c_set_clock(cfg, rate, freq, delay) ==
    LET cleared == cfg - (cfg % (I2C_CONFIG_CLREFMASK + 1))
    IN  IF freq = I2C_NORMALSPEED
        THEN ClearBit(ClearBit(cleared, I2C_CONFIG_TMDE), I2C_CONFIG_VSCD)
             + (U32Div(ClockRef(rate, freq, delay), 2) % (I2C_CONFIG_CLREFMASK + 1))
        ELSE IF freq = I2C_HIGHSPEED
        THEN ClearBit(SetBit(cleared, I2C_CONFIG_TMDE), I2C_CONFIG_VSCD)
             + (U32Div(ClockRef(rate, freq, delay) * 2, 3) % (I2C_CONFIG_CLREFMASK + 1))
        ELSE cfg

\* lines 738-758 of ns9xxx_i2c_probe, repeated by ns9xxx_reinit_i2c: interrupt
\* disabled and spike filter at its maximum, clock set, interrupt enabled
ProbeConfig(rate, spd, delay) ==
    ClearBit(ns9xxx_i2c_set_clock(I2C_CONFIG_IRQD + 15 * 512, rate,
                                  IF spd # 0 THEN spd ELSE I2C_NORMALSPEED, delay),
             I2C_CONFIG_IRQD)

(***************************************************************************)
(* The state after ns9xxx_i2c_probe: buf NULL, state I2C_INT_AWAITING (the *)
(* zeroed allocation), lock free, clock configured, and the caller about   *)
(* to enter ns9xxx_i2c_xfer.                                               *)
(***************************************************************************)
Init ==
    /\ msgs \in Transfers
    /\ mem = [m \in 1..Len(msgs) |-> [k \in 1..msgs[m].len |-> InitByte(msgs, m, k - 1)]]
    /\ speed \in Speeds
    /\ clkrate \in ClkRates
    /\ scl_delay \in SclDelays
    /\ state = "AWAITING"
    /\ buf = NULL
    /\ lock = "none"
    /\ irqoff = 0
    /\ config = ProbeConfig(clkrate, speed, scl_delay)
    /\ io = NoIo
    /\ hwActive = FALSE
    /\ wedged = FALSE
    /\ ncmd = 0
    /\ gpio = "hw"
    /\ sigpending = FALSE
    /\ oob = FALSE
    /\ pc = "xfer"
    /\ stack = <<>>
    /\ retval = 0
    /\ i = 0 /\ ret = 0 /\ retry = 0 /\ len = 0 /\ lbuf = NULL /\ result = 0
    /\ firsterr = 0
    /\ cmdlog = <<>>
    /\ cmd = 0 /\ expired = FALSE
    /\ count = 0 /\ rwret = 0
    /\ attempt = 0 /\ elapsed = 0
    /\ sda = 0
    /\ irqpc = "idle"
    /\ irqstatus = 0

(***************************************************************************)
(* ns9xxx_i2c_irq (lines 146-183).  A command that hangs (wedged) stays in *)
(* progress with the lock bit set and raises no interrupt; the bus reset and *)
(* the reinitialisation may release it, and the command is then dropped    *)
(* without an interrupt, or it resumes by itself (ctrl_resume).  Otherwise *)
(* the command in progress completes and                                   *)
(* the handler starts: it reads the status register, which holds the cause *)
(* code the controller chose and, for receive-data-ready, the next byte of *)
(* the slave.                                                              *)
(***************************************************************************)
\* irq_entry without the test of line 154: the handler classifies the cause
\* whatever dev_data->state is (a variant C3_SpuriousInterruptIgnored rules out)
irq_entry_unchecked ==
    /\ irqpc = "idle"
    /\ hwActive /\ ~wedged
    /\ irqoff = 0
    /\ lock = "none"
    /\ \E code \in 0..MaxIrqCode :
       \E data \in (IF code * 256 = I2C_IRQ_RXDATA THEN RxBytes ELSE {0}) :
          /\ irqstatus' = StatusWord(FALSE, code, data)
          /\ cmdlog' = IF state # "AWAITING" THEN cmdlog ELSE Completed(code, data)
    /\ lock' = "irq"
    /\ io' = Wr("STATUS", 0, "irq")
    /\ hwActive' = FALSE
    /\ irqpc' = "switch"
    /\ UNCHANGED <<msgs, mem, state, buf, irqoff, config, wedged, ncmd, gpio,
                   sigpending, oob, pc, stack, retval, xfervars, subvars,
                   platvars>>

\* line 152: status = readl(dev_data->ioaddr + I2C_STATUS), which acknowledges
\* the interrupt; line 154: if (dev_data->state != I2C_INT_AWAITING) return
\* IRQ_HANDLED; line 157: spin_lock(&dev_data->lock), which is free: the
\* handler could not start while the thread held it
irq_entry ==
    /\ irqpc = "idle"
    /\ hwActive /\ ~wedged
    /\ irqoff = 0
    /\ lock = "none"
    /\ \E code \in 0..MaxIrqCode :
       \E data \in (IF code * 256 = I2C_IRQ_RXDATA /\ state = "AWAITING" THEN RxBytes ELSE {0}) :
          /\ irqstatus' = IF state # "AWAITING" THEN 0 ELSE StatusWord(FALSE, code, data)
          /\ cmdlog' = IF state # "AWAITING" THEN cmdlog ELSE Completed(code, data)
    /\ lock' = IF state # "AWAITING" THEN lock ELSE "irq"
    /\ io' = Wr("STATUS", 0, "irq")
    /\ hwActive' = FALSE
    /\ irqpc' = IF state # "AWAITING" THEN "idle" ELSE "switch"
    /\ UNCHANGED <<msgs, mem, state, buf, irqoff, config, wedged, ncmd, gpio,
                   sigpending, oob, pc, stack, retval, xfervars, subvars,
                   platvars>>

\* irq_rxdata with a break after the store: the receive-data-ready case does
\* not fall through to the state assignment (a variant
\* C21_StateIsFunctionOfCause rules out)
irq_rxdata_break ==
    /\ irqpc = "switch"
    /\ IrqCause(irqstatus) = I2C_IRQ_RXDATA
    /\ mem' = IF buf # NULL /\ InBuffer(buf) THEN Store(buf, RxData(irqstatus)) ELSE mem
    /\ io' = NoIo
    /\ oob' = IF buf # NULL /\ ~InBuffer(buf) THEN TRUE ELSE oob
    /\ irqpc' = "unlock"
    /\ irqstatus' = 0
    /\ UNCHANGED <<cmdlog, msgs, devvars, hwActive, wedged, ncmd, gpio, sigpending, pc,
                   stack, retval, xfervars, subvars, platvars>>

\* lines 160-162: case I2C_IRQ_RXDATA: if (dev_data->buf) *dev_data->buf = status & 0xff
\* (no break: falls through to the state assignment)
irq_rxdata ==
    /\ irqpc = "switch"
    /\ IrqCause(irqstatus) = I2C_IRQ_RXDATA
    /\ mem' = IF buf # NULL /\ InBuffer(buf) THEN Store(buf, RxData(irqstatus)) ELSE mem
    /\ io' = NoIo
    /\ oob' = IF buf # NULL /\ ~InBuffer(buf) THEN TRUE ELSE oob
    /\ irqpc' = "set_ok"
    /\ irqstatus' = 0
    /\ UNCHANGED <<cmdlog, msgs, devvars, hwActive, wedged, ncmd, gpio, sigpending, pc,
                   stack, retval, xfervars, subvars, platvars>>

\* lines 163-166: case I2C_IRQ_CMDACK: case I2C_IRQ_TXDATA: dev_data->state = I2C_INT_OK
irq_ok ==
    /\ \/ irqpc = "set_ok"
       \/ /\ irqpc = "switch"
          /\ IrqCause(irqstatus) \in {I2C_IRQ_CMDACK, I2C_IRQ_TXDATA}
    /\ state' = "OK"
    /\ io' = NoIo
    /\ irqpc' = "unlock"
    /\ irqstatus' = 0
    /\ UNCHANGED <<cmdlog, msgs, mem, buf, lock, irqoff, config, hwvars, pc, stack,
                   retval, xfervars, subvars, platvars>>

\* irq_noack_stop without the write of line 168: no STOP is issued before the
\* state becomes Abort (a variant C4_AbortOnlyAfterStop rules out)
irq_noack_nostop ==
    /\ irqpc = "switch"
    /\ IrqCause(irqstatus) = I2C_IRQ_NOACK
    /\ io' = NoIo
    /\ irqpc' = "set_abort"
    /\ irqstatus' = 0
    /\ UNCHANGED <<cmdlog, msgs, mem, devvars, hwvars, pc, stack, retval, xfervars,
                   subvars, platvars>>

\* line 168: case I2C_IRQ_NOACK: writel(I2C_CMD_STOP, ioaddr + I2C_CMD)
irq_noack_stop ==
    /\ irqpc = "switch"
    /\ IrqCause(irqstatus) = I2C_IRQ_NOACK
    /\ io' = Wr("CMD", I2C_CMD_STOP, "irq")
    /\ hwActive' = TRUE
    /\ irqpc' = "set_abort"
    /\ irqstatus' = 0
    /\ UNCHANGED <<cmdlog, msgs, mem, devvars, wedged, ncmd, gpio, sigpending, oob, pc,
                   stack, retval, xfervars, subvars, platvars>>

\* line 169: dev_data->state = I2C_INT_ABORT
irq_noack_abort ==
    /\ irqpc = "set_abort"
    /\ state' = "ABORT"
    /\ io' = NoIo
    /\ irqpc' = "unlock"
    /\ UNCHANGED <<cmdlog, msgs, mem, buf, lock, irqoff, config, hwvars, pc, stack,
                   retval, xfervars, subvars, irqstatus, platvars>>

\* lines 171-173: case I2C_IRQ_ARBITLOST: dev_data->state = I2C_INT_RETRY
irq_arbitlost ==
    /\ irqpc = "switch"
    /\ IrqCause(irqstatus) = I2C_IRQ_ARBITLOST
    /\ state' = "RETRY"
    /\ io' = NoIo
    /\ irqpc' = "unlock"
    /\ irqstatus' = 0
    /\ UNCHANGED <<cmdlog, msgs, mem, buf, lock, irqoff, config, hwvars, pc, stack,
                   retval, xfervars, subvars, platvars>>

\* lines 174-175: default: dev_data->state = I2C_INT_ERROR
irq_default ==
    /\ irqpc = "switch"
    /\ IrqCause(irqstatus) \notin {I2C_IRQ_RXDATA, I2C_IRQ_CMDACK, I2C_IRQ_TXDATA, I2C_IRQ_NOACK, I2C_IRQ_ARBITLOST}
    /\ state' = "ERROR"
    /\ io' = NoIo
    /\ irqpc' = "unlock"
    /\ irqstatus' = 0
    /\ UNCHANGED <<cmdlog, msgs, mem, buf, lock, irqoff, config, hwvars, pc, stack,
                   retval, xfervars, subvars, platvars>>

\* lines 178-182: spin_unlock(&dev_data->lock);
\* wake_up_interruptible(&dev_data->wait_q); return IRQ_HANDLED
irq_unlock_wake ==
    /\ irqpc = "unlock"
    /\ lock' = "none"
    /\ io' = NoIo
    /\ irqpc' = "idle"
    /\ UNCHANGED <<cmdlog, msgs, mem, state, buf, irqoff, config, hwvars, pc, stack,
                   retval, xfervars, subvars, irqstatus, platvars>>

\* the controller: a command that hung goes on after all, for instance when
\* the slave or another master lets go of the bus; it then completes with its
\* interrupt like any other command, however late
ctrl_resume ==
    /\ irqpc = "idle"
    /\ hwActive /\ wedged
    /\ wedged' = FALSE
    /\ io' = NoIo
    /\ UNCHANGED <<cmdlog, msgs, mem, devvars, hwActive, ncmd, gpio, sigpending, oob,
                   pc, stack, retval, xfervars, subvars, irqvars, platvars>>

ns9xxx_i2c_irq ==
    \/ irq_entry \/ irq_rxdata \/ irq_ok
    \/ irq_noack_stop \/ irq_noack_abort \/ irq_arbitlost \/ irq_default
    \/ irq_unlock_wake

(***************************************************************************)
(* ns9xxx_i2c_send_cmd (lines 185-238).  The command word is in cmd.       *)
(***************************************************************************)
\* send_cmd_entry without the test of the lock bit of lines 190-196: the
\* command is issued at once (a variant C9_OneCommandOutstanding rules out)
send_cmd_entry_unchecked ==
    /\ ThreadRuns
    /\ pc = "send_cmd"
    /\ io' = NoIo
    /\ pc' = "send_cmd_lock"
    /\ UNCHANGED <<cmdlog, msgs, mem, devvars, hwvars, stack, retval, xfervars, subvars,
                   irqvars, platvars>>

\* lines 190-192: status = readl(STATUS); if (status & I2C_STATUS_MCMDL)
\* ns9xxx_wait_while_busy(dev_data)
send_cmd_entry ==
    /\ ThreadRuns
    /\ pc = "send_cmd"
    /\ io' = NoIo
    /\ pc' = IF Locked(ThreadStatus) THEN "wait_while_busy" ELSE "send_cmd_lock"
    /\ stack' = IF Locked(ThreadStatus) THEN <<"send_cmd_busy_ret">> \o stack ELSE stack
    /\ UNCHANGED <<cmdlog, msgs, mem, devvars, hwvars, retval, xfervars, subvars,
                   irqvars, platvars>>

\* lines 192-195: a failed wait for the lock bit returns -ETIMEDOUT
send_cmd_busy_ret ==
    /\ ThreadRuns
    /\ pc = "send_cmd_busy_ret"
    /\ io' = NoIo
    /\ pc' = IF retval # 0 THEN Head(stack) ELSE "send_cmd_lock"
    /\ stack' = IF retval # 0 THEN Tail(stack) ELSE stack
    /\ retval' = IF retval # 0 THEN -ETIMEDOUT ELSE retval
    /\ UNCHANGED <<cmdlog, msgs, mem, devvars, hwvars, xfervars, subvars, irqvars,
                   platvars>>

\* line 198: spin_lock_irqsave(&dev_data->lock, flags)
send_cmd_lock ==
    /\ ThreadRuns
    /\ pc = "send_cmd_lock"
    /\ lock = "none"
    /\ lock' = "thread"
    /\ io' = NoIo
    /\ pc' = "send_cmd_set_awaiting"
    /\ UNCHANGED <<cmdlog, msgs, mem, state, buf, irqoff, config, hwvars, stack, retval,
                   xfervars, subvars, irqvars, platvars>>

\* line 199: dev_data->state = I2C_INT_AWAITING
send_cmd_set_awaiting ==
    /\ ThreadRuns
    /\ pc = "send_cmd_set_awaiting"
    /\ state' = "AWAITING"
    /\ io' = NoIo
    /\ pc' = "send_cmd_write"
    /\ UNCHANGED <<cmdlog, msgs, mem, buf, lock, irqoff, config, hwvars, stack, retval,
                   xfervars, subvars, irqvars, platvars>>

\* line 200: writel(cmd, dev_data->ioaddr + I2C_CMD).  The controller starts the
\* command; one of the first MaxWedgeCmd commands may hang.
send_cmd_write ==
    /\ ThreadRuns
    /\ pc = "send_cmd_write"
    /\ wedged' \in (IF ncmd < MaxWedgeCmd THEN BOOLEAN ELSE {wedged})
    /\ io' = Wr("CMD", cmd, "thread")
    /\ hwActive' = TRUE
    /\ ncmd' = IF ncmd < CmdCountCap THEN ncmd + 1 ELSE ncmd
    /\ pc' = "send_cmd_unlock"
    /\ expired' = FALSE
    /\ cmdlog' = Issued(cmd)
    /\ UNCHANGED <<msgs, mem, devvars, gpio, sigpending, oob, stack, retval,
                   xfervars, cmd, count, rwret, attempt, elapsed, sda, irqvars,
                   platvars>>

\* line 201: spin_unlock_irqrestore(&dev_data->lock, flags)
send_cmd_unlock ==
    /\ ThreadRuns
    /\ pc = "send_cmd_unlock"
    /\ lock' = "none"
    /\ io' = NoIo
    /\ pc' = "send_cmd_wait"
    /\ UNCHANGED <<cmdlog, msgs, mem, state, buf, irqoff, config, hwvars, stack, retval,
                   xfervars, subvars, irqvars, platvars>>

\* line 203: wait_event_interruptible_timeout returns > 0: the condition
\* dev_data->state != I2C_INT_AWAITING is true
send_cmd_wait_woken ==
    /\ ThreadRuns
    /\ pc = "send_cmd_wait"
    /\ state # "AWAITING"
    /\ io' = NoIo
    /\ pc' = "send_cmd_check"
    /\ UNCHANGED <<cmdlog, msgs, mem, devvars, hwvars, stack, retval, xfervars, subvars,
                   irqvars, platvars>>

\* lines 203-208: the wait returns 0: adap.timeout elapsed with the condition
\* still false; then ns9xxx_wait_while_busy(dev_data)
send_cmd_wait_timeout ==
    /\ ThreadRuns
    /\ pc = "send_cmd_wait"
    /\ state = "AWAITING"
    /\ ~sigpending
    /\ wedged \/ ncmd <= MaxFaultCmd
    /\ io' = NoIo
    /\ pc' = "wait_while_busy"
    /\ stack' = <<"send_cmd_timeout_ret">> \o stack
    /\ expired' = TRUE
    /\ cmdlog' = Dirty
    /\ UNCHANGED <<msgs, mem, devvars, hwvars, retval, xfervars, cmd, count,
                   rwret, attempt, elapsed, sda, irqvars, platvars>>

\* line 203: the wait returns -ERESTARTSYS: a signal is pending for the caller
\* while the condition is false.  The result is not 0, so the timeout
\* branch is skipped.
send_cmd_wait_signal ==
    /\ ThreadRuns
    /\ pc = "send_cmd_wait"
    /\ state = "AWAITING"
    /\ sigpending \/ ncmd <= MaxFaultCmd
    /\ io' = NoIo
    /\ sigpending' = TRUE
    /\ pc' = "send_cmd_check"
    /\ cmdlog' = Dirty
    /\ UNCHANGED <<msgs, mem, devvars, hwActive, wedged, ncmd, gpio, oob, stack,
                   retval, xfervars, subvars, irqvars, platvars>>

\* send_cmd_timeout_ret with the retry of lines 211-226 compiled in: when the
\* bus is free the command is written again (a variant
\* C10_TimeoutReturnsWithoutReissue rules out)
send_cmd_timeout_reissue ==
    /\ ThreadRuns
    /\ pc = "send_cmd_timeout_ret"
    /\ io' = NoIo
    /\ pc' = IF retval = 0 THEN "send_cmd_lock" ELSE Head(stack)
    /\ stack' = IF retval = 0 THEN stack ELSE Tail(stack)
    /\ retval' = IF retval = 0 THEN retval ELSE -ETIMEDOUT
    /\ UNCHANGED <<cmdlog, msgs, mem, devvars, hwvars, xfervars, subvars, irqvars,
                   platvars>>

\* lines 208-229: whatever ns9xxx_wait_while_busy returned (the retry of the
\* command is compiled out by #if 0): return -ETIMEDOUT
send_cmd_timeout_ret ==
    /\ ThreadRuns
    /\ pc = "send_cmd_timeout_ret"
    /\ io' = NoIo
    /\ pc' = Head(stack)
    /\ stack' = Tail(stack)
    /\ retval' = -ETIMEDOUT
    /\ UNCHANGED <<cmdlog, msgs, mem, devvars, hwvars, xfervars, subvars, irqvars,
                   platvars>>

\* lines 232-237: if (dev_data->state != I2C_INT_OK) return -EIO; return 0;
send_cmd_check ==
    /\ ThreadRuns
    /\ pc = "send_cmd_check"
    /\ io' = NoIo
    /\ pc' = Head(stack)
    /\ stack' = Tail(stack)
    /\ retval' = IF state # "OK" THEN -EIO ELSE 0
    /\ UNCHANGED <<cmdlog, msgs, mem, devvars, hwvars, xfervars, subvars, irqvars,
                   platvars>>

ns9xxx_i2c_send_cmd ==
    \/ send_cmd_entry \/ send_cmd_busy_ret \/ send_cmd_lock
    \/ send_cmd_set_awaiting \/ send_cmd_write \/ send_cmd_unlock
    \/ send_cmd_wait_woken \/ send_cmd_wait_timeout \/ send_cmd_wait_signal
    \/ send_cmd_timeout_ret \/ send_cmd_check

(***************************************************************************)
(* ns9xxx_i2c_read (lines 240-256).  The argument is in count.             *)
(***************************************************************************)
\* line 243: int ret = 0
read_entry ==
    /\ ThreadRuns
    /\ pc = "read"
    /\ io' = NoIo
    /\ pc' = "read_loop"
    /\ rwret' = 0
    /\ UNCHANGED <<cmdlog, msgs, mem, devvars, hwvars, stack, retval, xfervars, cmd,
                   expired, count, attempt, elapsed, sda, irqvars, platvars>>

\* read_loop with the loop test while (count--): one NOP per byte of the
\* message, the byte of the addressing phase included (a variant
\* C12_ReadStoresInOrder rules out)
read_loop_all ==
    /\ ThreadRuns
    /\ pc = "read_loop"
    /\ io' = NoIo
    /\ pc' = IF count > 0 THEN "read_lock" ELSE Head(stack)
    /\ stack' = IF count > 0 THEN stack ELSE Tail(stack)
    /\ retval' = IF count > 0 THEN retval ELSE rwret
    /\ count' = IF count > 0 THEN count - 1 ELSE 0
    /\ rwret' = IF count > 0 THEN rwret ELSE 0
    /\ UNCHANGED <<cmdlog, msgs, mem, devvars, hwvars, xfervars, cmd, expired, attempt,
                   elapsed, sda, irqvars, platvars>>

\* line 245: while (count-- > 1); line 255: return ret
read_loop ==
    /\ ThreadRuns
    /\ pc = "read_loop"
    /\ io' = NoIo
    /\ pc' = IF count > 1 THEN "read_lock" ELSE Head(stack)
    /\ stack' = IF count > 1 THEN stack ELSE Tail(stack)
    /\ retval' = IF count > 1 THEN retval ELSE rwret
    /\ count' = IF count > 1 THEN count - 1 ELSE 0
    /\ rwret' = IF count > 1 THEN rwret ELSE 0
    /\ UNCHANGED <<cmdlog, msgs, mem, devvars, hwvars, xfervars, cmd, expired, attempt,
                   elapsed, sda, irqvars, platvars>>

\* line 246: spin_lock_irqsave
read_lock ==
    /\ ThreadRuns
    /\ pc = "read_lock"
    /\ lock = "none"
    /\ lock' = "thread"
    /\ io' = NoIo
    /\ pc' = "read_advance"
    /\ UNCHANGED <<cmdlog, msgs, mem, state, buf, irqoff, config, hwvars, stack, retval,
                   xfervars, subvars, irqvars, platvars>>

\* line 247: dev_data->buf++
read_advance ==
    /\ ThreadRuns
    /\ pc = "read_advance"
    /\ buf' = Advance(buf)
    /\ io' = NoIo
    /\ pc' = "read_unlock"
    /\ UNCHANGED <<cmdlog, msgs, mem, state, lock, irqoff, config, hwvars, stack, retval,
                   xfervars, subvars, irqvars, platvars>>

\* lines 248-250: spin_unlock_irqrestore; ns9xxx_i2c_send_cmd(dev_data, I2C_CMD_NOP)
read_unlock ==
    /\ ThreadRuns
    /\ pc = "read_unlock"
    /\ lock' = "none"
    /\ io' = NoIo
    /\ pc' = "send_cmd"
    /\ stack' = <<"read_ret">> \o stack
    /\ cmd' = I2C_CMD_NOP
    /\ UNCHANGED <<cmdlog, msgs, mem, state, buf, irqoff, config, hwvars, retval,
                   xfervars, expired, count, rwret, attempt, elapsed, sda,
                   irqvars, platvars>>

\* lines 250-252: ret = ...; if (ret) break;
read_ret ==
    /\ ThreadRuns
    /\ pc = "read_ret"
    /\ io' = NoIo
    /\ pc' = IF retval # 0 THEN Head(stack) ELSE "read_loop"
    /\ stack' = IF retval # 0 THEN Tail(stack) ELSE stack
    /\ count' = IF retval # 0 THEN 0 ELSE count
    /\ rwret' = IF retval # 0 THEN 0 ELSE retval
    /\ UNCHANGED <<cmdlog, msgs, mem, devvars, hwvars, retval, xfervars, cmd, expired,
                   attempt, elapsed, sda, irqvars, platvars>>

ns9xxx_i2c_read ==
    \/ read_entry \/ read_loop \/ read_lock \/ read_advance \/ read_unlock
    \/ read_ret

(***************************************************************************)
(* ns9xxx_i2c_write (lines 258-272).  The arguments are in lbuf and count. *)
(***************************************************************************)
\* line 261: int ret = 0
write_entry ==
    /\ ThreadRuns
    /\ pc = "write"
    /\ io' = NoIo
    /\ pc' = "write_loop"
    /\ rwret' = 0
    /\ UNCHANGED <<cmdlog, msgs, mem, devvars, hwvars, stack, retval, xfervars, cmd,
                   expired, count, attempt, elapsed, sda, irqvars, platvars>>

\* lines 263-265: while (count--) ns9xxx_i2c_send_cmd(dev_data,
\* I2C_CMD_NOP | I2C_CMD_TXVAL | *buf); line 271: return ret
write_loop ==
    /\ ThreadRuns
    /\ pc = "write_loop"
    /\ io' = NoIo
    /\ pc' = IF count # 0 THEN "send_cmd" ELSE Head(stack)
    /\ stack' = IF count # 0 THEN <<"write_ret">> \o stack ELSE Tail(stack)
    /\ retval' = IF count # 0 THEN retval ELSE rwret
    /\ cmd' = IF count # 0 THEN I2C_CMD_NOP + I2C_CMD_TXVAL + Load(lbuf) ELSE cmd
    /\ count' = IF count # 0 THEN count - 1 ELSE 0
    /\ rwret' = IF count # 0 THEN rwret ELSE 0
    /\ UNCHANGED <<cmdlog, msgs, mem, devvars, hwvars, xfervars, expired, attempt,
                   elapsed, sda, irqvars, platvars>>

\* write_ret without the break of line 266: the loop goes on after a failed
\* command (a variant C20_WriteSendsNopTxval rules out)
write_ret_nobreak ==
    /\ ThreadRuns
    /\ pc = "write_ret"
    /\ io' = NoIo
    /\ pc' = "write_loop"
    /\ stack' = stack
    /\ lbuf' = Advance(lbuf)
    /\ count' = count
    /\ rwret' = retval
    /\ UNCHANGED <<cmdlog, msgs, mem, devvars, hwvars, retval, i, ret, retry, len,
                   result, firsterr, cmd, expired, attempt, elapsed, sda,
                   irqvars, platvars>>

\* lines 264-268: ret = ...; if (ret) break; buf++
write_ret ==
    /\ ThreadRuns
    /\ pc = "write_ret"
    /\ io' = NoIo
    /\ pc' = IF retval # 0 THEN Head(stack) ELSE "write_loop"
    /\ stack' = IF retval # 0 THEN Tail(stack) ELSE stack
    /\ lbuf' = IF retval # 0 THEN lbuf ELSE Advance(lbuf)
    /\ count' = IF retval # 0 THEN 0 ELSE count
    /\ rwret' = IF retval # 0 THEN 0 ELSE retval
    /\ UNCHANGED <<cmdlog, msgs, mem, devvars, hwvars, retval, i, ret, retry, len,
                   result, firsterr, cmd, expired, attempt, elapsed, sda,
                   irqvars, platvars>>

ns9xxx_i2c_write == write_entry \/ write_loop \/ write_ret

(***************************************************************************)
(* ns9xxx_i2c_bitbang (lines 274-322): the address probe of a zero-length  *)
(* message, i indexing the message.                                        *)
(***************************************************************************)
\* line 278: disable_irq(dev_data->irq)
bitbang_disable ==
    /\ ThreadRuns
    /\ pc = "bitbang"
    /\ irqoff' = irqoff + 1
    /\ io' = NoIo
    /\ pc' = "bitbang_start"
    /\ UNCHANGED <<cmdlog, msgs, mem, state, buf, lock, config, hwvars, stack, retval,
                   xfervars, subvars, irqvars, platvars>>

\* lines 280-288: both lines driven as outputs, start condition
bitbang_start ==
    /\ ThreadRuns
    /\ pc = "bitbang_start"
    /\ io' = NoIo
    /\ gpio' = "gpio"
    /\ pc' = "bitbang_bit"
    /\ UNCHANGED <<cmdlog, msgs, mem, devvars, hwActive, wedged, ncmd, sigpending, oob,
                   stack, retval, xfervars, subvars, irqvars, platvars>>

\* lines 290-305: the loop for (i = 0; i < nr_bits; i++): data line set (to 1
\* for both values of the address bit), clock toggled
bitbang_bit ==
    /\ ThreadRuns
    /\ pc = "bitbang_bit"
    /\ io' = NoIo
    /\ pc' = "bitbang_ack"
    /\ UNCHANGED <<cmdlog, msgs, mem, devvars, hwvars, stack, retval, xfervars, subvars,
                   irqvars, platvars>>

\* lines 308-311: data line as input, clock high,
\* ret = gpio_get_value(gpio_sda): the level the slave drives
bitbang_ack ==
    /\ ThreadRuns
    /\ pc = "bitbang_ack"
    /\ sda' \in {0, 1}
    /\ io' = NoIo
    /\ pc' = "bitbang_restore"
    /\ UNCHANGED <<cmdlog, msgs, mem, devvars, hwvars, stack, retval, xfervars, cmd,
                   expired, count, rwret, attempt, elapsed, irqvars, platvars>>

\* lines 314-317: data line as output; gpio_configuration_func()
bitbang_restore ==
    /\ ThreadRuns
    /\ pc = "bitbang_restore"
    /\ io' = NoIo
    /\ gpio' = "hw"
    /\ pc' = "bitbang_enable"
    /\ UNCHANGED <<cmdlog, msgs, mem, devvars, hwActive, wedged, ncmd, sigpending, oob,
                   stack, retval, xfervars, subvars, irqvars, platvars>>

\* lines 319-321: enable_irq(dev_data->irq); return ret ? 0 : -ENODEV
bitbang_enable ==
    /\ ThreadRuns
    /\ pc = "bitbang_enable"
    /\ irqoff' = irqoff - 1
    /\ io' = NoIo
    /\ pc' = Head(stack)
    /\ stack' = Tail(stack)
    /\ retval' = IF sda # 0 THEN 0 ELSE -ENODEV
    /\ sda' = 0
    /\ UNCHANGED <<cmdlog, msgs, mem, state, buf, lock, config, hwvars, xfervars, cmd,
                   expired, count, rwret, attempt, elapsed, irqvars, platvars>>

ns9xxx_i2c_bitbang ==
    \/ bitbang_disable \/ bitbang_start \/ bitbang_bit \/ bitbang_ack
    \/ bitbang_restore \/ bitbang_enable

(***************************************************************************)
(* ns9xxx_i2c_reset_bitbang (lines 340-419).  The sampled line levels and the *)
(* cycle counts feed only the log messages, so they are not kept.          *)
(***************************************************************************)
\* line 348: disable_irq(dev_data->irq)
reset_bitbang_disable ==
    /\ ThreadRuns
    /\ pc = "reset_bitbang"
    /\ irqoff' = irqoff + 1
    /\ io' = NoIo
    /\ pc' = "reset_bitbang_release"
    /\ UNCHANGED <<cmdlog, msgs, mem, state, buf, lock, config, hwvars, stack, retval,
                   xfervars, subvars, irqvars, platvars>>

\* lines 350-364: both lines as inputs, sampled
reset_bitbang_release ==
    /\ ThreadRuns
    /\ pc = "reset_bitbang_release"
    /\ io' = NoIo
    /\ gpio' = "gpio"
    /\ pc' = "reset_bitbang_clock"
    /\ UNCHANGED <<cmdlog, msgs, mem, devvars, hwActive, wedged, ncmd, sigpending, oob,
                   stack, retval, xfervars, subvars, irqvars, platvars>>

\* lines 366-387: the loop for (i = 0; i < 9; i++) of clock pulses
reset_bitbang_clock ==
    /\ ThreadRuns
    /\ pc = "reset_bitbang_clock"
    /\ io' = NoIo
    /\ pc' = "reset_bitbang_stop"
    /\ UNCHANGED <<cmdlog, msgs, mem, devvars, hwvars, stack, retval, xfervars, subvars,
                   irqvars, platvars>>

\* lines 391-408: data line released, both lines sampled and reported
reset_bitbang_stop ==
    /\ ThreadRuns
    /\ pc = "reset_bitbang_stop"
    /\ io' = NoIo
    /\ pc' = "reset_bitbang_restore"
    /\ UNCHANGED <<cmdlog, msgs, mem, devvars, hwvars, stack, retval, xfervars, subvars,
                   irqvars, platvars>>

\* reset_bitbang_restore without the call of gpio_configuration_func of line
\* 411: the lines stay under GPIO control (a variant C14_GpioUnderIrqDisable
\* rules out)
reset_bitbang_norestore ==
    /\ ThreadRuns
    /\ pc = "reset_bitbang_restore"
    /\ \E recover \in (IF wedged THEN BOOLEAN ELSE {FALSE}) :
          /\ wedged' = (wedged /\ ~recover)
          /\ hwActive' = (hwActive /\ ~recover)
    /\ io' = NoIo
    /\ pc' = "reset_bitbang_enable"
    /\ UNCHANGED <<cmdlog, msgs, mem, devvars, ncmd, gpio, sigpending, oob, stack, retval,
                   xfervars, subvars, irqvars, platvars>>

\* lines 411-416: gpio_configuration_func(); the registers are read and logged.
\* The clock pulses may have released a hung controller, which drops its command.
reset_bitbang_restore ==
    /\ ThreadRuns
    /\ pc = "reset_bitbang_restore"
    /\ \E recover \in (IF wedged THEN BOOLEAN ELSE {FALSE}) :
          /\ wedged' = (wedged /\ ~recover)
          /\ hwActive' = (hwActive /\ ~recover)
    /\ io' = NoIo
    /\ gpio' = "hw"
    /\ pc' = "reset_bitbang_enable"
    /\ UNCHANGED <<cmdlog, msgs, mem, devvars, ncmd, sigpending, oob, stack, retval,
                   xfervars, subvars, irqvars, platvars>>

\* line 418: enable_irq(dev_data->irq)
reset_bitbang_enable ==
    /\ ThreadRuns
    /\ pc = "reset_bitbang_enable"
    /\ irqoff' = irqoff - 1
    /\ io' = NoIo
    /\ pc' = Head(stack)
    /\ stack' = Tail(stack)
    /\ retval' = 0
    /\ UNCHANGED <<cmdlog, msgs, mem, state, buf, lock, config, hwvars, xfervars,
                   subvars, irqvars, platvars>>

ns9xxx_i2c_reset_bitbang ==
    \/ reset_bitbang_disable \/ reset_bitbang_release \/ reset_bitbang_clock
    \/ reset_bitbang_stop \/ reset_bitbang_restore \/ reset_bitbang_enable

(***************************************************************************)
(* ns9xxx_reinit_i2c (lines 422-456).                                      *)
(***************************************************************************)
\* line 427: ns9xxx_i2c_reset_bitbang(dev_data)
reinit_entry ==
    /\ ThreadRuns
    /\ pc = "reinit"
    /\ io' = NoIo
    /\ pc' = "reset_bitbang"
    /\ stack' = <<"reinit_status">> \o stack
    /\ UNCHANGED <<cmdlog, msgs, mem, devvars, hwvars, retval, xfervars, subvars,
                   irqvars, platvars>>

\* lines 429-436 and 453-455: status = readl(STATUS); if the master module is
\* still locked go on to reinitialise, else return
reinit_status ==
    /\ ThreadRuns
    /\ pc = "reinit_status"
    /\ io' = NoIo
    /\ pc' = IF Locked(ThreadStatus) THEN "reinit_disable" ELSE Head(stack)
    /\ stack' = IF Locked(ThreadStatus) THEN stack ELSE Tail(stack)
    /\ UNCHANGED <<cmdlog, msgs, mem, devvars, hwvars, retval, xfervars, subvars,
                   irqvars, platvars>>

\* line 436: disable_irq(dev_data->irq)
reinit_disable ==
    /\ ThreadRuns
    /\ pc = "reinit_disable"
    /\ irqoff' = irqoff + 1
    /\ io' = NoIo
    /\ pc' = "reinit_config"
    /\ UNCHANGED <<cmdlog, msgs, mem, state, buf, lock, config, hwvars, stack, retval,
                   xfervars, subvars, irqvars, platvars>>

\* lines 438-439: writel(I2C_CONFIG_IRQD | (0xf << I2C_CONFIG_SFW_SHIFT), CONFIG)
reinit_config ==
    /\ ThreadRuns
    /\ pc = "reinit_config"
    /\ config' = I2C_CONFIG_IRQD + 15 * 512
    /\ io' = Wr("CONFIG", I2C_CONFIG_IRQD + 15 * 512, "thread")
    /\ pc' = "reinit_set_clock"
    /\ UNCHANGED <<cmdlog, msgs, mem, state, buf, lock, irqoff, hwvars, stack, retval,
                   xfervars, subvars, irqvars, platvars>>

\* lines 441-447: ns9xxx_i2c_set_clock(dev_data, pdata->speed or I2C_NORMALSPEED)
reinit_set_clock ==
    /\ ThreadRuns
    /\ pc = "reinit_set_clock"
    /\ config' = ns9xxx_i2c_set_clock(config, clkrate,
                     IF speed # 0 THEN speed ELSE I2C_NORMALSPEED, scl_delay)
    /\ io' = IF (IF speed # 0 THEN speed ELSE I2C_NORMALSPEED) \in {I2C_NORMALSPEED, I2C_HIGHSPEED}
             THEN Wr("CONFIG", ns9xxx_i2c_set_clock(config, clkrate,
                     IF speed # 0 THEN speed ELSE I2C_NORMALSPEED, scl_delay), "thread")
             ELSE NoIo
    /\ pc' = "reinit_enable"
    /\ UNCHANGED <<cmdlog, msgs, mem, state, buf, lock, irqoff, hwvars, stack, retval,
                   xfervars, subvars, irqvars, platvars>>

\* line 449: enable_irq(dev_data->irq)
reinit_enable ==
    /\ ThreadRuns
    /\ pc = "reinit_enable"
    /\ irqoff' = irqoff - 1
    /\ io' = NoIo
    /\ pc' = "reinit_clear_irqd"
    /\ UNCHANGED <<cmdlog, msgs, mem, state, buf, lock, config, hwvars, stack, retval,
                   xfervars, subvars, irqvars, platvars>>

\* lines 451-452: writel(readl(CONFIG) & ~I2C_CONFIG_IRQD, CONFIG).
\* The reinitialised controller may have left its hang, dropping its command.
reinit_clear_irqd ==
    /\ ThreadRuns
    /\ pc = "reinit_clear_irqd"
    /\ \E recover \in (IF wedged THEN BOOLEAN ELSE {FALSE}) :
          /\ wedged' = (wedged /\ ~recover)
          /\ hwActive' = (hwActive /\ ~recover)
    /\ config' = ClearBit(config, I2C_CONFIG_IRQD)
    /\ io' = Wr("CONFIG", ClearBit(config, I2C_CONFIG_IRQD), "thread")
    /\ pc' = Head(stack)
    /\ stack' = Tail(stack)
    /\ UNCHANGED <<cmdlog, msgs, mem, state, buf, lock, irqoff, ncmd, gpio, sigpending,
                   oob, retval, xfervars, subvars, irqvars, platvars>>

ns9xxx_reinit_i2c ==
    \/ reinit_entry \/ reinit_status \/ reinit_disable \/ reinit_config
    \/ reinit_set_clock \/ reinit_enable \/ reinit_clear_irqd

(***************************************************************************)
(* ns9xxx_wait_while_busy (lines 463-501).  elapsed counts the polls since *)
(* the window of the current attempt opened; the window has expired when   *)
(* elapsed exceeds PollWindow.  A command that is not hung completes before *)
(* a window runs out, so time passes the end of a window only while the    *)
(* controller is wedged.                                                   *)
(***************************************************************************)
\* lines 472-478: status = readl(STATUS); return 0 if the lock bit is clear
wait_while_busy_entry ==
    /\ ThreadRuns
    /\ pc = "wait_while_busy"
    /\ io' = NoIo
    /\ pc' = IF Locked(ThreadStatus) THEN "wait_while_busy_attempt" ELSE Head(stack)
    /\ stack' = IF Locked(ThreadStatus) THEN stack ELSE Tail(stack)
    /\ retval' = IF Locked(ThreadStatus) THEN retval ELSE 0
    /\ attempt' = 0
    /\ UNCHANGED <<cmdlog, msgs, mem, devvars, hwvars, xfervars, cmd, expired, count,
                   rwret, elapsed, sda, irqvars, platvars>>

\* wait_while_busy_attempt with the loop test i <= BUSY_RELEASE_ATTEMPTS: an
\* eleventh attempt is made (a variant C11_BusyRecoveryBounded rules out)
wait_while_busy_attempt_extra ==
    /\ ThreadRuns
    /\ pc = "wait_while_busy_attempt"
    /\ io' = NoIo
    /\ pc' = IF attempt <= BUSY_RELEASE_ATTEMPTS THEN "wait_while_busy_window" ELSE Head(stack)
    /\ stack' = IF attempt <= BUSY_RELEASE_ATTEMPTS THEN stack ELSE Tail(stack)
    /\ retval' = IF attempt <= BUSY_RELEASE_ATTEMPTS THEN retval ELSE -ETIMEDOUT
    /\ attempt' = IF attempt <= BUSY_RELEASE_ATTEMPTS THEN attempt ELSE 0
    /\ elapsed' = 0
    /\ UNCHANGED <<cmdlog, msgs, mem, devvars, hwvars, xfervars, cmd, expired, count,
                   rwret, sda, irqvars, platvars>>

\* lines 478-479: for (i = 0; i < BUSY_RELEASE_ATTEMPTS; i++) timeout = jiffies + ...
\* lines 498-500: return -ETIMEDOUT after the last attempt
wait_while_busy_attempt ==
    /\ ThreadRuns
    /\ pc = "wait_while_busy_attempt"
    /\ io' = NoIo
    /\ pc' = IF attempt < BUSY_RELEASE_ATTEMPTS THEN "wait_while_busy_window" ELSE Head(stack)
    /\ stack' = IF attempt < BUSY_RELEASE_ATTEMPTS THEN stack ELSE Tail(stack)
    /\ retval' = IF attempt < BUSY_RELEASE_ATTEMPTS THEN retval ELSE -ETIMEDOUT
    /\ attempt' = IF attempt < BUSY_RELEASE_ATTEMPTS THEN attempt ELSE 0
    /\ elapsed' = 0
    /\ UNCHANGED <<cmdlog, msgs, mem, devvars, hwvars, xfervars, cmd, expired, count,
                   rwret, sda, irqvars, platvars>>

\* line 481: while (!time_after(jiffies, timeout));
\* lines 493-495: the window expired: ns9xxx_reinit_i2c(dev)
wait_while_busy_window ==
    /\ ThreadRuns
    /\ pc = "wait_while_busy_window"
    /\ io' = NoIo
    /\ pc' = IF elapsed > PollWindow THEN "reinit" ELSE "wait_while_busy_poll"
    /\ stack' = IF elapsed > PollWindow THEN <<"wait_while_busy_reinit_ret">> \o stack ELSE stack
    /\ expired' = (expired \/ elapsed > PollWindow)
    /\ UNCHANGED <<cmdlog, msgs, mem, devvars, hwvars, retval, xfervars, cmd, count,
                   rwret, attempt, elapsed, sda, irqvars, platvars>>

\* lines 483-484: status = readl(STATUS); lock bit clear: leave the loop
wait_while_busy_poll ==
    /\ ThreadRuns
    /\ pc = "wait_while_busy_poll"
    /\ ~Locked(ThreadStatus)
    /\ io' = NoIo
    /\ pc' = "wait_while_busy_idle"
    /\ UNCHANGED <<cmdlog, msgs, mem, devvars, hwvars, stack, retval, xfervars, subvars,
                   irqvars, platvars>>

\* lines 483-490: the lock bit is set: msleep(1), which may sleep longer
wait_while_busy_sleep ==
    /\ ThreadRuns
    /\ pc = "wait_while_busy_poll"
    /\ Locked(ThreadStatus)
    /\ \E d \in 1..(PollWindow + 1) :
          /\ elapsed + d <= PollWindow + 1
          /\ (elapsed + d > PollWindow => wedged)
          /\ elapsed' = elapsed + d
    /\ io' = NoIo
    /\ pc' = "wait_while_busy_window"
    /\ UNCHANGED <<cmdlog, msgs, mem, devvars, hwvars, stack, retval, xfervars, cmd,
                   expired, count, rwret, attempt, sda, irqvars, platvars>>

\* lines 485-488: msleep(1); status read again and logged; return 0
wait_while_busy_idle ==
    /\ ThreadRuns
    /\ pc = "wait_while_busy_idle"
    /\ io' = NoIo
    /\ pc' = Head(stack)
    /\ stack' = Tail(stack)
    /\ retval' = 0
    /\ attempt' = 0
    /\ elapsed' = 0
    /\ UNCHANGED <<cmdlog, msgs, mem, devvars, hwvars, xfervars, cmd, expired, count,
                   rwret, sda, irqvars, platvars>>

\* wait_while_busy_reinit_ret without the i++ of line 478: the attempts are
\* not counted (a variant C22_XferReturns rules out)
wait_while_busy_reinit_ret_nocount ==
    /\ ThreadRuns
    /\ pc = "wait_while_busy_reinit_ret"
    /\ io' = NoIo
    /\ pc' = "wait_while_busy_attempt"
    /\ attempt' = attempt
    /\ UNCHANGED <<cmdlog, msgs, mem, devvars, hwvars, stack, retval, xfervars, cmd,
                   expired, count, rwret, elapsed, sda, irqvars, platvars>>

\* line 478: i++
wait_while_busy_reinit_ret ==
    /\ ThreadRuns
    /\ pc = "wait_while_busy_reinit_ret"
    /\ io' = NoIo
    /\ pc' = "wait_while_busy_attempt"
    /\ attempt' = attempt + 1
    /\ UNCHANGED <<cmdlog, msgs, mem, devvars, hwvars, stack, retval, xfervars, cmd,
                   expired, count, rwret, elapsed, sda, irqvars, platvars>>

ns9xxx_wait_while_busy ==
    \/ wait_while_busy_entry \/ wait_while_busy_attempt
    \/ wait_while_busy_window \/ wait_while_busy_poll \/ wait_while_busy_sleep
    \/ wait_while_busy_idle \/ wait_while_busy_reinit_ret

(***************************************************************************)
(* ns9xxx_i2c_xfer (lines 504-599).                                        *)
(***************************************************************************)
\* lines 536-542: the master address register value of message m
MasterAddrReg(m) ==
    (m.addr % (I2C_MASTERADDR_ADDRMASK + 1)) * 2
    + (IF m.ten THEN I2C_MASTERADDR_10BIT ELSE I2C_MASTERADDR_7BIT)

\* lines 508-515: ret = 0, retry = 10, buf = NULL; dev_data->state = I2C_INT_OK; i = 0
xfer_entry ==
    /\ ThreadRuns
    /\ pc = "xfer"
    /\ state' = "OK"
    /\ io' = NoIo
    /\ pc' = "xfer_loop"
    /\ i' = 0
    /\ ret' = 0
    /\ retry' = RetryBudget
    /\ lbuf' = NULL
    /\ UNCHANGED <<cmdlog, msgs, mem, buf, lock, irqoff, config, hwvars, stack, retval,
                   len, result, firsterr, subvars, irqvars, platvars>>

\* line 515: i < num; lines 516-517: if (dev_data->state == I2C_INT_RETRY)
\* ret = ns9xxx_i2c_send_cmd(dev_data, I2C_CMD_STOP)
xfer_loop ==
    /\ ThreadRuns
    /\ pc = "xfer_loop"
    /\ io' = NoIo
    /\ pc' = IF i >= num THEN "xfer_final"
             ELSE IF state = "RETRY" THEN "send_cmd" ELSE "xfer_setbuf"
    /\ stack' = IF i < num /\ state = "RETRY" THEN <<"xfer_retry_ret">> \o stack ELSE stack
    /\ cmd' = IF i < num /\ state = "RETRY" THEN I2C_CMD_STOP ELSE cmd
    /\ UNCHANGED <<cmdlog, msgs, mem, devvars, hwvars, retval, xfervars, expired, count,
                   rwret, attempt, elapsed, sda, irqvars, platvars>>

\* xfer_retry_ret with the budget tested before it is decremented, as in
\* if (ret || !retry--) (a variant C2_NineRestartsAbsorbed rules out)
xfer_retry_ret_postdec ==
    /\ ThreadRuns
    /\ pc = "xfer_retry_ret"
    /\ io' = NoIo
    /\ pc' = IF retval # 0 \/ retry = 0 THEN "done" ELSE "xfer_setbuf"
    /\ retval' = 0
    /\ ret' = retval
    /\ retry' = retry - 1
    /\ result' = IF retval # 0 \/ retry = 0 THEN -EIO ELSE result
    /\ UNCHANGED <<cmdlog, msgs, mem, devvars, hwvars, stack, i, len, lbuf, firsterr,
                   subvars, irqvars, platvars>>

\* lines 517-521: ret = ...; --retry; if (ret || !retry) return -EIO;
xfer_retry_ret ==
    /\ ThreadRuns
    /\ pc = "xfer_retry_ret"
    /\ io' = NoIo
    /\ pc' = IF retval # 0 \/ retry - 1 = 0 THEN "done" ELSE "xfer_setbuf"
    /\ retval' = 0
    /\ ret' = retval
    /\ retry' = retry - 1
    /\ result' = IF retval # 0 \/ retry - 1 = 0 THEN -EIO ELSE result
    /\ UNCHANGED <<cmdlog, msgs, mem, devvars, hwvars, stack, i, len, lbuf, firsterr,
                   subvars, irqvars, platvars>>

\* lines 523-526: len = msgs[i].len; buf = msgs[i].buf; spin_lock_irqsave
xfer_setbuf_lock ==
    /\ ThreadRuns
    /\ pc = "xfer_setbuf"
    /\ lock = "none"
    /\ lock' = "thread"
    /\ io' = NoIo
    /\ pc' = "xfer_setbuf_write"
    /\ len' = msgs[i + 1].len
    /\ lbuf' = [m |-> i, off |-> 0]
    /\ UNCHANGED <<cmdlog, msgs, mem, state, buf, irqoff, config, hwvars, stack, retval,
                   i, ret, retry, result, firsterr, subvars, irqvars, platvars>>

\* line 527: dev_data->buf = buf
xfer_setbuf_write ==
    /\ ThreadRuns
    /\ pc = "xfer_setbuf_write"
    /\ buf' = lbuf
    /\ io' = NoIo
    /\ pc' = "xfer_setbuf_unlock"
    /\ UNCHANGED <<cmdlog, msgs, mem, state, lock, irqoff, config, hwvars, stack, retval,
                   xfervars, subvars, irqvars, platvars>>

\* line 528: spin_unlock_irqrestore
xfer_setbuf_unlock ==
    /\ ThreadRuns
    /\ pc = "xfer_setbuf_unlock"
    /\ lock' = "none"
    /\ io' = NoIo
    /\ pc' = "xfer_dispatch"
    /\ UNCHANGED <<cmdlog, msgs, mem, state, buf, irqoff, config, hwvars, stack, retval,
                   xfervars, subvars, irqvars, platvars>>

\* lines 530-534: zero length: ns9xxx_i2c_bitbang(dev_data, &msgs[i]);
\* else address the slave unless I2C_M_NOSTART is set
xfer_dispatch ==
    /\ ThreadRuns
    /\ pc = "xfer_dispatch"
    /\ io' = NoIo
    /\ pc' = IF msgs[i + 1].len = 0 THEN "bitbang"
             ELSE IF ~msgs[i + 1].nostart THEN "xfer_addr_lock" ELSE "xfer_payload"
    /\ stack' = IF msgs[i + 1].len = 0 THEN <<"xfer_bitbang_ret">> \o stack ELSE stack
    /\ UNCHANGED <<cmdlog, msgs, mem, devvars, hwvars, retval, xfervars, subvars,
                   irqvars, platvars>>

\* line 532: ret = ns9xxx_i2c_bitbang(...); the loop goes on
xfer_bitbang_ret ==
    /\ ThreadRuns
    /\ pc = "xfer_bitbang_ret"
    /\ io' = NoIo
    /\ pc' = "xfer_continue"
    /\ retval' = 0
    /\ ret' = retval
    /\ firsterr' = IF firsterr = 0 /\ retval < 0 THEN retval ELSE firsterr
    /\ UNCHANGED <<cmdlog, msgs, mem, devvars, hwvars, stack, i, retry, len, lbuf,
                   result, subvars, irqvars, platvars>>

\* line 544: spin_lock_irqsave
xfer_addr_lock ==
    /\ ThreadRuns
    /\ pc = "xfer_addr_lock"
    /\ lock = "none"
    /\ lock' = "thread"
    /\ io' = NoIo
    /\ pc' = "xfer_addr_write"
    /\ UNCHANGED <<cmdlog, msgs, mem, state, buf, irqoff, config, hwvars, stack, retval,
                   xfervars, subvars, irqvars, platvars>>

\* lines 536-546: writel(reg, dev_data->ioaddr + I2C_MASTERADDR)
xfer_addr_write ==
    /\ ThreadRuns
    /\ pc = "xfer_addr_write"
    /\ io' = Wr("MASTERADDR", MasterAddrReg(msgs[i + 1]), "thread")
    /\ pc' = "xfer_addr_unlock"
    /\ UNCHANGED <<cmdlog, msgs, mem, devvars, hwvars, stack, retval, xfervars, subvars,
                   irqvars, platvars>>

\* line 547: spin_unlock_irqrestore
xfer_addr_unlock ==
    /\ ThreadRuns
    /\ pc = "xfer_addr_unlock"
    /\ lock' = "none"
    /\ io' = NoIo
    /\ pc' = "xfer_addr_cmd"
    /\ UNCHANGED <<cmdlog, msgs, mem, state, buf, irqoff, config, hwvars, stack, retval,
                   xfervars, subvars, irqvars, platvars>>

\* lines 549-558: cmd = I2C_CMD_READ, or I2C_CMD_WRITE | I2C_CMD_TXVAL | *buf with
\* len--, buf++; ret = ns9xxx_i2c_send_cmd(dev_data, cmd)
xfer_addr_cmd ==
    /\ ThreadRuns
    /\ pc = "xfer_addr_cmd"
    /\ io' = NoIo
    /\ pc' = "send_cmd"
    /\ stack' = <<"xfer_addr_ret">> \o stack
    /\ len' = IF msgs[i + 1].rd THEN len ELSE len - 1
    /\ lbuf' = IF msgs[i + 1].rd THEN lbuf ELSE Advance(lbuf)
    /\ cmd' = IF msgs[i + 1].rd THEN I2C_CMD_READ
              ELSE I2C_CMD_WRITE + I2C_CMD_TXVAL + Load(lbuf)
    /\ UNCHANGED <<cmdlog, msgs, mem, devvars, hwvars, retval, i, ret, retry, result,
                   firsterr, expired, count, rwret, attempt, elapsed, sda,
                   irqvars, platvars>>

\* lines 558-565: if (ret) { if (dev_data->state == I2C_INT_RETRY) { i = 0;
\* continue; } break; }
xfer_addr_ret ==
    /\ ThreadRuns
    /\ pc = "xfer_addr_ret"
    /\ io' = NoIo
    /\ pc' = IF retval = 0 THEN "xfer_payload"
             ELSE IF state = "RETRY" THEN "xfer_continue" ELSE "xfer_final"
    /\ retval' = 0
    /\ i' = IF retval # 0 /\ state = "RETRY" THEN 0 ELSE i
    /\ ret' = retval
    /\ firsterr' = IF firsterr = 0 /\ retval < 0 /\ state # "RETRY" THEN retval ELSE firsterr
    /\ UNCHANGED <<cmdlog, msgs, mem, devvars, hwvars, stack, retry, len, lbuf, result,
                   subvars, irqvars, platvars>>

\* lines 568-571: ret = ns9xxx_i2c_read(dev_data, len) or
\* ns9xxx_i2c_write(dev_data, buf, len)
xfer_payload ==
    /\ ThreadRuns
    /\ pc = "xfer_payload"
    /\ io' = NoIo
    /\ pc' = IF msgs[i + 1].rd THEN "read" ELSE "write"
    /\ stack' = <<"xfer_payload_ret">> \o stack
    /\ count' = len
    /\ UNCHANGED <<cmdlog, msgs, mem, devvars, hwvars, retval, xfervars, cmd, expired,
                   rwret, attempt, elapsed, sda, irqvars, platvars>>

\* lines 572-578: if (ret) { if (dev_data->state == I2C_INT_RETRY) { i = 0;
\* continue; } break; }
xfer_payload_ret ==
    /\ ThreadRuns
    /\ pc = "xfer_payload_ret"
    /\ io' = NoIo
    /\ pc' = IF retval # 0 /\ state # "RETRY" THEN "xfer_final" ELSE "xfer_continue"
    /\ retval' = 0
    /\ i' = IF retval # 0 /\ state = "RETRY" THEN 0 ELSE i
    /\ ret' = retval
    /\ firsterr' = IF firsterr = 0 /\ retval < 0 /\ state # "RETRY" THEN retval ELSE firsterr
    /\ UNCHANGED <<cmdlog, msgs, mem, devvars, hwvars, stack, retry, len, lbuf, result,
                   subvars, irqvars, platvars>>

\* line 515: i++, at the end of an iteration and after continue
xfer_continue ==
    /\ ThreadRuns
    /\ pc = "xfer_continue"
    /\ io' = NoIo
    /\ pc' = "xfer_loop"
    /\ i' = i + 1
    /\ UNCHANGED <<cmdlog, msgs, mem, devvars, hwvars, stack, retval, ret, retry, len,
                   lbuf, result, firsterr, subvars, irqvars, platvars>>

\* line 582: ns9xxx_i2c_send_cmd(dev_data, I2C_CMD_STOP); the locals retry, len
\* and buf are not read after the loop
xfer_final ==
    /\ ThreadRuns
    /\ pc = "xfer_final"
    /\ io' = NoIo
    /\ pc' = "send_cmd"
    /\ stack' = <<"xfer_final_ret">> \o stack
    /\ retry' = 0
    /\ len' = 0
    /\ lbuf' = NULL
    /\ cmd' = I2C_CMD_STOP
    /\ UNCHANGED <<cmdlog, msgs, mem, devvars, hwvars, retval, i, ret, result, firsterr,
                   expired, count, rwret, attempt, elapsed, sda, irqvars,
                   platvars>>

\* lines 582-586: if the STOP failed: ns9xxx_i2c_send_cmd(dev_data, I2C_CMD_NOP)
xfer_final_ret ==
    /\ ThreadRuns
    /\ pc = "xfer_final_ret"
    /\ io' = NoIo
    /\ pc' = IF retval # 0 THEN "send_cmd" ELSE "xfer_clear"
    /\ stack' = IF retval # 0 THEN <<"xfer_unstick_ret">> \o stack ELSE stack
    /\ retval' = 0
    /\ cmd' = IF retval # 0 THEN I2C_CMD_NOP ELSE cmd
    /\ UNCHANGED <<cmdlog, msgs, mem, devvars, hwvars, xfervars, expired, count, rwret,
                   attempt, elapsed, sda, irqvars, platvars>>

\* line 587: ns9xxx_i2c_send_cmd(dev_data, I2C_CMD_STOP), whatever the NOP returned
xfer_unstick_ret ==
    /\ ThreadRuns
    /\ pc = "xfer_unstick_ret"
    /\ io' = NoIo
    /\ pc' = "send_cmd"
    /\ stack' = <<"xfer_final2_ret">> \o stack
    /\ retval' = 0
    /\ cmd' = I2C_CMD_STOP
    /\ UNCHANGED <<cmdlog, msgs, mem, devvars, hwvars, xfervars, expired, count, rwret,
                   attempt, elapsed, sda, irqvars, platvars>>

\* xfer_final2_ret with the bus reset called whatever the second STOP
\* returned (a variant C18_UnstickEscalatesInOrder rules out)
xfer_final2_ret_always ==
    /\ ThreadRuns
    /\ pc = "xfer_final2_ret"
    /\ io' = NoIo
    /\ pc' = "reset_bitbang"
    /\ stack' = <<"xfer_clear">> \o stack
    /\ retval' = 0
    /\ UNCHANGED <<cmdlog, msgs, mem, devvars, hwvars, xfervars, subvars, irqvars,
                   platvars>>

\* lines 587-590: if the second STOP failed: ns9xxx_i2c_reset_bitbang(dev_data)
xfer_final2_ret ==
    /\ ThreadRuns
    /\ pc = "xfer_final2_ret"
    /\ io' = NoIo
    /\ pc' = IF retval # 0 THEN "reset_bitbang" ELSE "xfer_clear"
    /\ stack' = IF retval # 0 THEN <<"xfer_clear">> \o stack ELSE stack
    /\ retval' = 0
    /\ UNCHANGED <<cmdlog, msgs, mem, devvars, hwvars, xfervars, subvars, irqvars,
                   platvars>>

\* line 593: spin_lock_irqsave
xfer_clear_lock ==
    /\ ThreadRuns
    /\ pc = "xfer_clear"
    /\ lock = "none"
    /\ lock' = "thread"
    /\ io' = NoIo
    /\ pc' = "xfer_clear_write"
    /\ UNCHANGED <<cmdlog, msgs, mem, state, buf, irqoff, config, hwvars, stack, retval,
                   xfervars, subvars, irqvars, platvars>>

\* line 594: dev_data->buf = NULL
xfer_clear_write ==
    /\ ThreadRuns
    /\ pc = "xfer_clear_write"
    /\ buf' = NULL
    /\ io' = NoIo
    /\ pc' = "xfer_clear_unlock"
    /\ UNCHANGED <<cmdlog, msgs, mem, state, lock, irqoff, config, hwvars, stack, retval,
                   xfervars, subvars, irqvars, platvars>>

\* line 595: spin_unlock_irqrestore
xfer_clear_unlock ==
    /\ ThreadRuns
    /\ pc = "xfer_clear_unlock"
    /\ lock' = "none"
    /\ io' = NoIo
    /\ pc' = "xfer_return"
    /\ UNCHANGED <<cmdlog, msgs, mem, state, buf, irqoff, config, hwvars, stack, retval,
                   xfervars, subvars, irqvars, platvars>>

\* line 598: return ((ret < 0) ? ret : i)
xfer_return ==
    /\ ThreadRuns
    /\ pc = "xfer_return"
    /\ io' = NoIo
    /\ pc' = "done"
    /\ result' = IF ret < 0 THEN ret ELSE i
    /\ UNCHANGED <<cmdlog, msgs, mem, devvars, hwvars, stack, retval, i, ret, retry, len,
                   lbuf, firsterr, subvars, irqvars, platvars>>

ns9xxx_i2c_xfer ==
    \/ xfer_entry \/ xfer_loop \/ xfer_retry_ret
    \/ xfer_setbuf_lock \/ xfer_setbuf_write \/ xfer_setbuf_unlock
    \/ xfer_dispatch \/ xfer_bitbang_ret
    \/ xfer_addr_lock \/ xfer_addr_write \/ xfer_addr_unlock \/ xfer_addr_cmd
    \/ xfer_addr_ret \/ xfer_payload \/ xfer_payload_ret \/ xfer_continue
    \/ xfer_final \/ xfer_final_ret \/ xfer_unstick_ret \/ xfer_final2_ret
    \/ xfer_clear_lock \/ xfer_clear_write \/ xfer_clear_unlock \/ xfer_return

(***************************************************************************)
(* The driver: the caller's transfer, the handler and the controller.      *)
(***************************************************************************)
Next ==
    \/ ns9xxx_i2c_xfer
    \/ ns9xxx_i2c_send_cmd
    \/ ns9xxx_i2c_read
    \/ ns9xxx_i2c_write
    \/ ns9xxx_i2c_bitbang
    \/ ns9xxx_i2c_reset_bitbang
    \/ ns9xxx_reinit_i2c
    \/ ns9xxx_wait_while_busy
    \/ ns9xxx_i2c_irq
    \/ ctrl_resume

Spec == Init /\ [][Next]_vars


(***************************************************************************)
(* ns9xxx_i2c_set_clock on its own: one call, with the clock rate, the     *)
(* delay parameter, the frequency argument (in speed) and the previous     *)
(* content of the configuration register drawn from bounded sets.          *)
(***************************************************************************)
\* clock rates: the rate of the platform of Init, its double, and one so low
\* that the subtraction of line 614 wraps around
ClockRates == {74908800, 149817600, 1000000}
\* values of SCL_DELAY of lines 82-94
ClockDelays == {0, 16, 25, 306}
\* the frequency argument: the two the switch accepts and one it rejects
ClockFreqs == {I2C_NORMALSPEED, I2C_HIGHSPEED, 0}
\* the configuration register before the call: as ns9xxx_i2c_probe wrote it
\* (line 745), and with the fast-mode, VSCD and clock-reference bits set
PrevConfigs ==
    {I2C_CONFIG_IRQD + 15 * 512,
     I2C_CONFIG_IRQD + 15 * 512 + I2C_CONFIG_TMDE + I2C_CONFIG_VSCD + I2C_CONFIG_CLREFMASK,
     I2C_CONFIG_VSCD + 15 * 512 + 1}

InitClock ==
    /\ msgs = <<>>
    /\ mem = <<>>
    /\ speed \in ClockFreqs
    /\ clkrate \in ClockRates
    /\ scl_delay \in ClockDelays
    /\ state = "AWAITING"
    /\ buf = NULL
    /\ lock = "none"
    /\ irqoff = 0
    /\ config \in PrevConfigs
    /\ io = NoIo
    /\ hwActive = FALSE
    /\ wedged = FALSE
    /\ ncmd = 0
    /\ gpio = "hw"
    /\ sigpending = FALSE
    /\ oob = FALSE
    /\ pc = "set_clock"
    /\ stack = <<>>
    /\ retval = 0
    /\ i = 0 /\ ret = 0 /\ retry = 0 /\ len = 0 /\ lbuf = NULL /\ result = 0
    /\ firsterr = 0
    /\ cmdlog = <<>>
    /\ cmd = 0 /\ expired = FALSE
    /\ count = 0 /\ rwret = 0
    /\ attempt = 0 /\ elapsed = 0
    /\ sda = 0
    /\ irqpc = "idle"
    /\ irqstatus = 0

\* lines 605-641: the frequency is one of the two cases: the configuration
\* word is computed and written, and 0 is returned
set_clock_write ==
    /\ pc = "set_clock"
    /\ speed \in {I2C_NORMALSPEED, I2C_HIGHSPEED}
    /\ config' = ns9xxx_i2c_set_clock(config, clkrate, speed, scl_delay)
    /\ io' = Wr("CONFIG", ns9xxx_i2c_set_clock(config, clkrate, speed, scl_delay), "thread")
    /\ retval' = 0
    /\ pc' = "set_clock_done"
    /\ UNCHANGED <<cmdlog, msgs, mem, state, buf, lock, irqoff, hwvars, stack,
                   xfervars, subvars, irqvars, platvars>>

\* lines 630-633: default: return -EINVAL, nothing is written
set_clock_einval ==
    /\ pc = "set_clock"
    /\ speed \notin {I2C_NORMALSPEED, I2C_HIGHSPEED}
    /\ io' = NoIo
    /\ retval' = -EINVAL
    /\ pc' = "set_clock_done"
    /\ UNCHANGED <<cmdlog, msgs, mem, devvars, hwvars, stack, xfervars, subvars,
                   irqvars, platvars>>

NextClock == set_clock_write \/ set_clock_einval

SpecClock == InitClock /\ [][NextClock]_vars

(***************************************************************************)
(* Termination of ns9xxx_i2c_xfer.  The transfers have 7-bit addresses and *)
(* one message, or two: a zero-length probe and a write of one byte, which *)
(* can be restarted until the budget is used up.  Fairness follows the     *)
(* scheduling:                                                             *)
(* the calling thread is either runnable or asleep with a timeout          *)
(* (wait_event_interruptible_timeout, msleep), so it takes its next step   *)
(* when one stays possible; a command that does not hang completes, and    *)
(* its interrupt is taken as soon as the processor accepts interrupts,     *)
(* however often the thread masks them in between; the handler, once       *)
(* entered, runs to its end.  Nothing obliges a hung controller to resume. *)
(***************************************************************************)
LiveTransfers ==
    {t \in Transfers :
        /\ \A k \in 1..Len(t) : ~t[k].ten
        /\ Len(t) > 1 => /\ t[1].len = 0
                         /\ t[2].len = 1 /\ ~t[2].rd /\ ~t[2].nostart}

InitLive == Init /\ msgs \in LiveTransfers

\* the steps of the calling thread
Thread ==
    \/ ns9xxx_i2c_xfer
    \/ ns9xxx_i2c_send_cmd
    \/ ns9xxx_i2c_read
    \/ ns9xxx_i2c_write
    \/ ns9xxx_i2c_bitbang
    \/ ns9xxx_i2c_reset_bitbang
    \/ ns9xxx_reinit_i2c
    \/ ns9xxx_wait_while_busy

SpecLive ==
    /\ InitLive
    /\ [][Next]_vars
    /\ WF_vars(Thread)
    /\ SF_vars(ns9xxx_i2c_irq)

(***************************************************************************)
(* Properties of the transfer, the handler and the command protocol.       *)
(***************************************************************************)
\* the thread wrote the command register in the step that led here
ThreadWroteCmd == io.reg = "CMD" /\ io.by = "thread"

\* the handler was entered in the step that led here
HandlerEntered == io = Wr("STATUS", 0, "irq")

\* the thread is in the timeout branch of ns9xxx_i2c_send_cmd (lines 206-229),
\* the busy recovery it calls included
InTimeoutBranch ==
    \/ pc = "send_cmd_timeout_ret"
    \/ \E k \in 1..Len(stack) : stack[k] = "send_cmd_timeout_ret"

\* restarts of the message loop so far in this transfer: runs of the branch
\* of lines 516-521
Restarts == RetryBudget - retry

\* C1: when the message loop resumes after a command failed with state Retry
\* (the thread is back from the STOP that lines 516-517 send at the loop top),
\* the message index is 0, so the first message is the next one processed.
C1_RestartAtFirstMessage == pc = "xfer_retry_ret" => i = 0

\* C2 as stated: each of the first 10 Retry outcomes whose STOP succeeded is
\* absorbed by a restart.
C2_TenRestartsAbsorbed ==
    [][(pc = "xfer_retry_ret" /\ retval = 0 /\ Restarts < 10) => pc' # "done"]_vars

\* C2, amended: the restart branch runs at most 10 times in one transfer; it
\* decrements the budget each time; the loop goes on after it exactly when
\* the STOP succeeded and fewer than 9 restarts came before, so the first 9
\* Retry outcomes are absorbed and the 10th returns -EIO.
C2_NineRestartsAbsorbed ==
    /\ [](pc \in {"xfer_loop", "xfer_retry_ret", "xfer_setbuf", "xfer_dispatch",
                 "xfer_continue"} => Restarts \in 0..9)
    /\ [][(pc = "xfer_retry_ret" /\ pc' # pc) =>
            /\ retry' = retry - 1
            /\ pc' = (IF retval = 0 /\ Restarts < 9 THEN "xfer_setbuf" ELSE "done")
            /\ (pc' = "done" => result' = -EIO)]_vars

\* C2 witness: the 10th restart, its STOP successful, has returned -EIO.
C2_TenthRestartReturned ==
    pc = "done" /\ retry = 0 /\ ret = 0 /\ result = -EIO

\* C3: a handler invocation that finds the completion state other than
\* Awaiting returns at once: state, cursor and buffers keep their values and
\* the step writes no register.
C3_SpuriousInterruptIgnored ==
    [][(HandlerEntered' /\ irqpc = "idle" /\ state # "AWAITING") =>
            /\ state' = state /\ buf' = buf /\ mem' = mem /\ oob' = oob
            /\ irqpc' = "idle" /\ lock' = lock]_vars

\* C3 witness: the handler ran and returned with the state Abort and the
\* cursor set.
C3_HandlerRanNotAwaiting ==
    HandlerEntered /\ irqpc = "idle" /\ state = "ABORT" /\ buf # NULL

\* C4: the state becomes Abort only in the handler step that follows the
\* handler's write of STOP to the command register, and the handler returns
\* (waking the waiter) only after that.
C4_AbortOnlyAfterStop ==
    /\ [](irqpc = "set_abort" => io = Wr("CMD", I2C_CMD_STOP, "irq"))
    /\ [][(state' = "ABORT" /\ state # "ABORT") =>
            irqpc = "set_abort" /\ irqpc' = "unlock"]_vars
    /\ [][(irqpc' = "idle" /\ irqpc # "idle" /\ state' = "ABORT") =>
            irqpc = "unlock" /\ state = "ABORT"]_vars

\* C4 witness: the handler has set Abort and has not yet returned.
C4_AbortSet == irqpc = "unlock" /\ state = "ABORT" /\ hwActive

\* C5: the probe of a zero-length message writes no register, and returns
\* success when the acknowledge level it sampled is low.
C5_AckLowIsSuccess ==
    /\ [][(pc \in {"bitbang", "bitbang_start", "bitbang_bit", "bitbang_ack",
                   "bitbang_restore", "bitbang_enable"}) => io'.by # "thread"]_vars
    /\ [][(pc = "bitbang_enable" /\ pc' # pc /\ sda = 0) => retval' = 0]_vars

\* C6: the transfer returns the message count only if no message's processing
\* ended with a negative result, and otherwise returns the first such result.
C6_ReturnsFirstError ==
    pc = "done" =>
        /\ (result = num => firsterr = 0)
        /\ (firsterr # 0 => result = firsterr)

\* C7: when the transfer has returned the cursor is null.
C7_CursorClearedOnReturn == pc = "done" => buf = NULL

\* C8: a step that changes the completion state or the cursor is taken with
\* the spinlock held.
C8_WritesUnderLock ==
    [][(state' # state \/ buf' # buf) => lock # "none"]_vars

\* C9: when the thread is about to issue a command after an earlier one, the
\* handler has moved the completion state out of Awaiting or the command
\* timeout has passed since the earlier command was written.
C9_OneCommandOutstanding ==
    (pc = "send_cmd_set_awaiting" /\ ncmd > 0) => (state # "AWAITING" \/ expired)

\* C9 witness: the next command is issued after the wait for the earlier one
\* was broken off by a signal.
C9_NextCommandAfterSignal ==
    pc = "send_cmd_set_awaiting" /\ ncmd > 0 /\ sigpending

\* C10: from the timed-out wait to the return the thread writes no command,
\* and ns9xxx_i2c_send_cmd then returns -ETIMEDOUT at once, whatever the busy
\* recovery returned.
C10_TimeoutReturnsWithoutReissue ==
    /\ [][InTimeoutBranch => ~ThreadWroteCmd']_vars
    /\ [][(pc = "send_cmd_timeout_ret" /\ pc' # pc) =>
            /\ pc' = Head(stack) /\ stack' = Tail(stack)
            /\ retval' = -ETIMEDOUT]_vars

\* C10 witness: the wait timed out and the busy recovery found the lock bit
\* clear.
C10_TimedOutBusFree ==
    pc = "send_cmd_timeout_ret" /\ retval = 0 /\ ~hwActive

\* the thread is inside a call of ns9xxx_wait_while_busy, the reinitialisation
\* it calls included
InBusyWait ==
    \/ pc \in {"wait_while_busy_attempt", "wait_while_busy_window",
               "wait_while_busy_poll", "wait_while_busy_idle",
               "wait_while_busy_reinit_ret"}
    \/ \E k \in 1..Len(stack) : stack[k] = "wait_while_busy_reinit_ret"

\* C11: one call of ns9xxx_wait_while_busy returns 0 at once, with no
\* reinitialisation, when the lock bit is clear at entry; it calls
\* ns9xxx_reinit_i2c only from an expired polling window, and only while
\* fewer than 10 reinitialisations were made in this call; time passes in a
\* window only at a poll that finds the lock bit set, and a poll that finds
\* it clear is followed by the return of 0;
\* and it returns -ETIMEDOUT exactly when 10 reinitialisations were made.
C11_BusyRecoveryBounded ==
    /\ [][(pc = "wait_while_busy" /\ ~Locked(ThreadStatus) /\ pc' # pc) =>
            /\ pc' = Head(stack) /\ stack' = Tail(stack) /\ retval' = 0]_vars
    /\ [](InBusyWait => attempt \in 0..BUSY_RELEASE_ATTEMPTS)
    /\ [][(pc' = "reinit" /\ pc # "reinit") =>
            /\ pc = "wait_while_busy_window"
            /\ elapsed > PollWindow
            /\ attempt < BUSY_RELEASE_ATTEMPTS]_vars
    /\ [][(pc = "wait_while_busy_poll" /\ ~Locked(ThreadStatus) /\ pc' # pc) =>
            pc' = "wait_while_busy_idle"]_vars
    /\ [][elapsed' > elapsed =>
            pc = "wait_while_busy_poll" /\ Locked(ThreadStatus)]_vars
    /\ [][(pc = "wait_while_busy_attempt" /\ pc' # pc) =>
            IF attempt = BUSY_RELEASE_ATTEMPTS
            THEN pc' = Head(stack) /\ retval' = -ETIMEDOUT
            ELSE pc' = "wait_while_busy_window"]_vars

\* C11 witness: the busy recovery called from the timeout branch has returned
\* the fatal timeout, after its 10 reinitialisations.
C11_FatalTimeoutReturned ==
    pc = "send_cmd_timeout_ret" /\ retval = -ETIMEDOUT /\ wedged

\* every command so far completed with state Ok
AllOk == cmdlog # Dirty

\* the transfer is one read message addressed with a start, and every command
\* so far completed with state Ok
SingleReadOk == num = 1 /\ msgs[1].rd /\ ~msgs[1].nostart /\ AllOk

\* the READ and NOP commands logged completed with receive-data-ready, the
\* STOP commands with another cause
DataByRxOnly ==
    \A k \in 1..Len(cmdlog) :
        (cmdlog[k].cause = I2C_IRQ_RXDATA) <=> (cmdlog[k].cmd # I2C_CMD_STOP)

\* C12: in a transfer of one read message of length n addressed with a start,
\* the byte the handler receives at the completion of the k-th command (READ,
\* then NOPs) is stored in cell k-1 of the buffer; when the READ and the NOPs
\* completed with receive-data-ready and the transfer has returned, the
\* commands written were READ, n-1 NOPs and the STOP, cell k-1 holds the k-th
\* received byte, no store fell outside the buffer and the result is 1.
C12_ReadStoresInOrder ==
    /\ [][(SingleReadOk /\ irqpc = "switch" /\ irqpc' = "set_ok"
           /\ cmdlog[Len(cmdlog)].cmd # I2C_CMD_STOP) =>
            /\ Len(cmdlog) <= msgs[1].len
            /\ mem' = [mem EXCEPT ![1][Len(cmdlog)] = cmdlog[Len(cmdlog)].data]
            /\ oob' = FALSE]_vars
    /\ []((pc = "done" /\ SingleReadOk /\ DataByRxOnly) =>
            /\ Len(cmdlog) = msgs[1].len + 1
            /\ cmdlog[1].cmd = I2C_CMD_READ
            /\ \A k \in 2..msgs[1].len : cmdlog[k].cmd = I2C_CMD_NOP
            /\ cmdlog[msgs[1].len + 1].cmd = I2C_CMD_STOP
            /\ \A k \in 1..msgs[1].len : mem[1][k] = cmdlog[k].data
            /\ ~oob
            /\ result = 1)

\* C12 witness: a read of more than one byte has returned, its bytes received
\* with receive-data-ready and different from each other.
C12_ReadReturned ==
    /\ pc = "done" /\ SingleReadOk /\ DataByRxOnly
    /\ msgs[1].len > 1
    /\ cmdlog[1].data # cmdlog[msgs[1].len].data

\* the command words of cmdlog, in the order written
CmdWords == [k \in 1..Len(cmdlog) |-> cmdlog[k].cmd]

\* the thread is inside ns9xxx_i2c_reset_bitbang
InBusReset ==
    pc \in {"reset_bitbang", "reset_bitbang_release", "reset_bitbang_clock",
            "reset_bitbang_stop", "reset_bitbang_restore", "reset_bitbang_enable"}

\* C13: when the transfer has returned and every command it issued completed
\* with state Ok, the result is the number of messages and the STOP is
\* written once, as the last command; the bus reset never runs while every
\* command completed Ok; a transfer of one 1-byte write message wrote exactly
\* WRITE|TXVAL|byte and STOP.
C13_AllOkReturnsCount ==
    /\ []((pc = "done" /\ AllOk) =>
            /\ result = num
            /\ Len(cmdlog) >= 1
            /\ \A k \in 1..Len(cmdlog) :
                   (cmdlog[k].cmd = I2C_CMD_STOP) <=> (k = Len(cmdlog))
            /\ ((num = 1 /\ msgs[1].len = 1 /\ ~msgs[1].rd /\ ~msgs[1].nostart) =>
                   CmdWords = <<I2C_CMD_WRITE + I2C_CMD_TXVAL + InitByte(msgs, 1, 0),
                                I2C_CMD_STOP>>))
    /\ [](InBusReset => ~AllOk)

\* the thread is inside ns9xxx_i2c_bitbang
InProbe ==
    pc \in {"bitbang", "bitbang_start", "bitbang_bit", "bitbang_ack",
            "bitbang_restore", "bitbang_enable"}

\* C14: the bus reset and the address probe are entered with the interrupt
\* enabled and the lines owned by the controller; while the lines are under
\* GPIO control the interrupt is disabled and no handler runs; the step that
\* re-enables the interrupt finds the lines given back to the controller; and
\* the routine returns with the disable depth back at 0, whatever levels were
\* sampled.
C14_GpioUnderIrqDisable ==
    /\ [](pc \in {"bitbang", "reset_bitbang"} => irqoff = 0 /\ gpio = "hw")
    /\ [](gpio = "gpio" => irqoff > 0 /\ irqpc = "idle" /\ (InProbe \/ InBusReset))
    /\ [][((InProbe \/ InBusReset) /\ irqoff' < irqoff) =>
            /\ pc \in {"bitbang_enable", "reset_bitbang_enable"}
            /\ gpio = "hw" /\ gpio' = "hw"
            /\ irqoff' = 0
            /\ pc' = Head(stack)]_vars
    /\ [][((InProbe \/ InBusReset) /\ ~(InProbe \/ InBusReset)') =>
            irqoff' = 0 /\ gpio' = "hw"]_vars

\* C14 witness: the bus reset called by the reinitialisation has returned
\* while the controller still hangs.
C14_BusResetReturned ==
    pc = "reinit_status" /\ wedged /\ irqoff = 0 /\ gpio = "hw"

\* the configuration word v without the clock-reference field of width bits
\* and without the fast-mode and VSCD bits
OtherConfigBits(v) ==
    ClearBit(ClearBit(v - (v % (I2C_CONFIG_CLREFMASK + 1)), I2C_CONFIG_TMDE),
             I2C_CONFIG_VSCD)

\* (rate / (4 * freq)) - 4 - delay of the call in progress, as an unsigned
\* 32-bit word (a negative value stands for the word 2^32 larger)
FormulaBase == (clkrate \div (4 * speed)) - 4 - scl_delay

\* the value the formula gives for the frequency of the call in progress
FormulaValue ==
    IF speed = I2C_NORMALSPEED THEN U32Div(FormulaBase, 2)
    ELSE U32Div(FormulaBase * 2, 3)

\* C15 as stated: the field written is the formula value reduced to 7 bits.
C15_ClockFieldSevenBits ==
    [][(pc = "set_clock" /\ speed \in {I2C_NORMALSPEED, I2C_HIGHSPEED}) =>
            /\ config' % (I2C_CONFIG_CLREFMASK + 1) = FormulaValue % 128
            /\ config' % (I2C_CONFIG_CLREFMASK + 1) < 128]_vars

\* C15, amended: for a frequency of 100 kHz or 400 kHz the word written has
\* the formula value, reduced by the 9-bit mask 0x1ff, in its clock-reference
\* field, which so never exceeds 9 bits; the fast-mode bit is cleared for
\* 100 kHz and set for 400 kHz, the VSCD bit is cleared, every other bit keeps
\* its previous value, and the result is 0.
C15_ClockFieldNineBits ==
    [][(pc = "set_clock" /\ speed \in {I2C_NORMALSPEED, I2C_HIGHSPEED}) =>
            /\ config' % 512 = FormulaValue % 512
            /\ io' = Wr("CONFIG", config', "thread")
            /\ ((config' \div I2C_CONFIG_TMDE) % 2 = 1) <=> (speed = I2C_HIGHSPEED)
            /\ (config' \div I2C_CONFIG_VSCD) % 2 = 0
            /\ OtherConfigBits(config') = OtherConfigBits(config)
            /\ retval' = 0]_vars

\* C15 witness: a call has written a clock-reference value that needs more
\* than 7 bits.
C15_FieldAboveSevenBits ==
    /\ pc = "set_clock_done" /\ retval = 0
    /\ io = Wr("CONFIG", config, "thread")
    /\ config % 512 >= 128

\* the wait for the last command the thread wrote timed out, no signal took
\* part, and the call of ns9xxx_i2c_send_cmd that wrote it has returned
TimedOutAndReturned == expired /\ ~sigpending /\ ~InTimeoutBranch

\* C16: while a handler invocation runs that started after the wait for the
\* command timed out and ns9xxx_i2c_send_cmd returned, the completion state
\* and the caller's buffers do not change; and the thread writes a command
\* only when no earlier command is still in progress, so that the interrupt of
\* an earlier command cannot complete a later one.
C16_LateInterruptIgnored ==
    /\ [][(irqpc # "idle" /\ TimedOutAndReturned) =>
            state' = state /\ mem' = mem /\ oob' = oob]_vars
    /\ [][ThreadWroteCmd' => ~hwActive]_vars

\* C17: ns9xxx_i2c_xfer returns only through the end-of-transfer sequence of
\* lines 582-598, which begins with the final STOP: the step that returns to
\* the caller is the return of line 598.
C17_ReturnsThroughFinalStop ==
    [][pc' = "done" /\ pc # "done" => pc = "xfer_return"]_vars

\* the call of ns9xxx_i2c_send_cmd that returns to label l begins in this step
CallBegins(l) ==
    /\ pc' = "send_cmd"
    /\ Len(stack') = Len(stack) + 1
    /\ Head(stack') = l

\* the bus reset of line 590 begins in this step
FinalResetBegins ==
    /\ pc' = "reset_bitbang"
    /\ Len(stack') = Len(stack) + 1
    /\ Head(stack') = "xfer_clear"

\* the thread is in lines 593-598, after the end-of-transfer recovery
InXferEpilogue ==
    pc \in {"xfer_clear", "xfer_clear_write", "xfer_clear_unlock", "xfer_return"}

\* C18: after the loop the first command is the STOP; the NOP is sent only
\* when that STOP returned a failure and the second STOP only after the NOP;
\* the bus reset of line 590 begins only when the second STOP returned a
\* failure; when the first STOP returned success the thread goes straight to
\* the clearing of the cursor, and from there to the return no command is
\* written and the pins stay with the controller.
C18_UnstickEscalatesInOrder ==
    /\ [][CallBegins("xfer_final_ret") => pc = "xfer_final" /\ cmd' = I2C_CMD_STOP]_vars
    /\ [][CallBegins("xfer_unstick_ret") =>
            pc = "xfer_final_ret" /\ retval # 0 /\ cmd' = I2C_CMD_NOP]_vars
    /\ [][CallBegins("xfer_final2_ret") =>
            pc = "xfer_unstick_ret" /\ cmd' = I2C_CMD_STOP]_vars
    /\ [][FinalResetBegins => pc = "xfer_final2_ret" /\ retval # 0]_vars
    /\ [][pc = "xfer_final_ret" /\ pc' # pc /\ retval = 0 => pc' = "xfer_clear"]_vars
    /\ [][pc = "xfer_final2_ret" /\ pc' # pc /\ retval = 0 => pc' = "xfer_clear"]_vars
    /\ [][InXferEpilogue /\ ThreadRuns => ~ThreadWroteCmd' /\ gpio' = "hw"]_vars

\* the bus reset of line 590 is running: both final STOPs failed
C18_FinalResetRunning ==
    pc = "reset_bitbang_restore" /\ stack = <<"xfer_clear">> /\ gpio = "gpio"

\* the thread is between the top of the loop body (line 523) and the end of
\* the body, the functions the body calls included: it is processing a message
InMessageBody ==
    \/ pc \in {"xfer_setbuf", "xfer_setbuf_write", "xfer_setbuf_unlock", "xfer_dispatch",
               "xfer_bitbang_ret", "xfer_addr_lock", "xfer_addr_write", "xfer_addr_unlock",
               "xfer_addr_cmd", "xfer_addr_ret", "xfer_payload", "xfer_payload_ret"}
    \/ /\ stack # <<>>
       /\ stack[Len(stack)] \in {"xfer_bitbang_ret", "xfer_addr_ret", "xfer_payload_ret"}

RemainingByte == mem[i + 1][msgs[i + 1].len - count + 1]

\* ns9xxx_i2c_write returns to ns9xxx_i2c_xfer in this step
WriteReturns ==
    pc \in {"write_loop", "write_ret"} /\ pc' = "xfer_payload_ret"

\* a step of the thread with respect to ns9xxx_i2c_write, with the opcode op
\* in the command words: one command per remaining byte, in buffer order; a
\* failed command ends the function with that failure and a return from the
\* top of the loop is a return of 0 with no byte remaining
WriteSendsWith(op) ==
    /\ CallBegins("write_ret") =>
          /\ pc = "write_loop" /\ count > 0 /\ count' = count - 1
          /\ cmd' = op + I2C_CMD_TXVAL + RemainingByte
    /\ pc = "write_ret" /\ pc' # pc /\ retval # 0 => WriteReturns /\ retval' = retval
    /\ pc = "write_ret" /\ pc' # pc /\ retval = 0 => pc' = "write_loop"
    /\ pc = "write_loop" /\ WriteReturns => count = 0 /\ retval' = 0

\* C20: ns9xxx_i2c_write issues, for each remaining byte in buffer order, one
\* command whose word is WRITE | TX_VALID | byte, and stops at the first
\* command that fails, returning that failure.
C20_WriteSendsWriteTxval == [][WriteSendsWith(I2C_CMD_WRITE)]_vars

\* C20, with the opcode the code uses: the word of each command is
\* NOP | TX_VALID | byte.
C20_WriteSendsNopTxval == [][WriteSendsWith(I2C_CMD_NOP)]_vars

\* the command for the last byte of a message of MaxLen bytes that was not
\* addressed has just been written by ns9xxx_i2c_write
C20_LastByteWritten ==
    /\ ThreadWroteCmd
    /\ stack # <<>> /\ Head(stack) = "write_ret"
    /\ msgs[i + 1].nostart /\ msgs[i + 1].len = MaxLen /\ count = 0
    /\ io.val = I2C_CMD_NOP + I2C_CMD_TXVAL + InitByte(msgs, i + 1, MaxLen - 1)

\* the completion state the handler is to leave for the cause field c of the
\* status word
StateForCause(c) ==
    IF c \in {I2C_IRQ_RXDATA, I2C_IRQ_CMDACK, I2C_IRQ_TXDATA} THEN "OK"
    ELSE IF c = I2C_IRQ_NOACK THEN "ABORT"
    ELSE IF c = I2C_IRQ_ARBITLOST THEN "RETRY"
    ELSE "ERROR"

\* C21: the handler reaches its switch only with completion state Awaiting;
\* the state it leaves is StateForCause of the 4-bit cause code of the status
\* word it read (Ok for receive-data-ready, command-acknowledge and
\* transmit-data-ready, Abort for no-acknowledge, Retry for arbitration-lost,
\* Error for every other code, 0 included), and from that assignment to the
\* return of the handler the state does not change; while the handler runs a
\* buffer cell changes only for receive-data-ready with the cursor set, to the
\* low 8 bits of the status word at the cell of the cursor, and with the
\* cursor set inside a buffer that store does happen.
C21_StateIsFunctionOfCause ==
    /\ [](irqpc = "switch" => state = "AWAITING")
    /\ [][irqpc = "switch" /\ irqpc' # irqpc =>
            \/ irqpc' = "unlock" /\ state' = StateForCause(IrqCause(irqstatus))
            \/ /\ irqpc' = "set_ok" /\ state' = state
               /\ StateForCause(IrqCause(irqstatus)) = "OK"
            \/ /\ irqpc' = "set_abort" /\ state' = state
               /\ StateForCause(IrqCause(irqstatus)) = "ABORT"]_vars
    /\ [][irqpc = "set_ok" /\ irqpc' # irqpc => irqpc' = "unlock" /\ state' = "OK"]_vars
    /\ [][irqpc = "set_abort" /\ irqpc' # irqpc =>
            irqpc' = "unlock" /\ state' = "ABORT"]_vars
    /\ [][irqpc = "unlock" => state' = state]_vars
    /\ [][irqpc # "idle" /\ mem' # mem =>
            /\ irqpc = "switch" /\ IrqCause(irqstatus) = I2C_IRQ_RXDATA
            /\ buf # NULL
            /\ mem' = Store(buf, irqstatus % 256)]_vars
    /\ [][/\ irqpc = "switch" /\ irqpc' # irqpc
          /\ IrqCause(irqstatus) = I2C_IRQ_RXDATA /\ buf # NULL /\ InBuffer(buf)
          => mem'[buf.m + 1][buf.off + 1] = irqstatus % 256]_vars

\* the handler has set Error for a cause code that no case of the switch names
\* and is about to return
C21_UnnamedCauseGaveError ==
    irqpc = "unlock" /\ state = "ERROR" /\ lock = "irq"

\* C22: every call of ns9xxx_i2c_xfer eventually returns, whatever the
\* controller does (a command that hangs for ever with the lock bit set and
\* no interrupt, arbitration lost on every command, any cause code), given
\* that time advances and the thread is scheduled.
C22_XferReturns == <>(pc = "done")

\* the call has returned although the controller still hangs with the lock
\* bit set
C22_ReturnedWhileHung == pc = "done" /\ wedged /\ hwActive

\* the commands logged that completed with receive-data-ready: the receive
\* cycles driven
ReceiveCycles == {k \in 1..Len(cmdlog) : cmdlog[k].cause = I2C_IRQ_RXDATA}

\* C23: when a transfer of one read message of length n >= 1, with or without
\* I2C_M_NOSTART, has returned 1 with every command completed Ok (the READ and
\* the NOPs with receive-data-ready, the STOP with another cause), n receive
\* cycles were driven and every cell 0..n-1 of the buffer holds a byte the
\* slave delivered.
C23_ReadFillsEveryCell ==
    (/\ pc = "done" /\ num = 1 /\ msgs[1].rd /\ msgs[1].len >= 1
     /\ AllOk /\ DataByRxOnly /\ result = 1)
    => /\ Cardinality(ReceiveCycles) = msgs[1].len
       /\ \A k \in 1..msgs[1].len : mem[1][k] \in RxBytes
====
